---- MODULE Spec2Model ----
(***************************************************************************)
(* Model of the DXF import pipeline of KeyboardLayoutMaker (parser.js):    *)
(* parseDXFFile, getLinePoints, buildRectangle and normalizeKeys, and of   *)
(* the handlers of app.js that import, save and load a layout.             *)
(*                                                                         *)
(* JavaScript values are tagged records [t |-> <type>, ...].  A JS number  *)
(* is [t |-> "number", v |-> n] where the integer n counts HALVES: the     *)
(* record stands for the number n/2.  Every coordinate of the drawings     *)
(* below is an integer, so every number the pipeline computes is a         *)
(* multiple of 1/2 far below 2^53 and IEEE double arithmetic on it is      *)
(* exact; the only division of the pipeline is the "/ 2" of the centre.    *)
(***************************************************************************)
EXTENDS Integers, Sequences, FiniteSets, TLC

VARIABLES
  entities,    \* dxf.entities: what the DXF decoder returned for the file
  lines,       \* parseDXFFile: const lines (the LINE entities)
  pc,          \* position in parseDXFFile
  i,           \* parseDXFFile: loop index of the grouping loop
  rectangles,  \* parseDXFFile: const rectangles
  keys,        \* parseDXFFile: const keys (assembled, before normalizeKeys)
  result,      \* the value parseDXFFile resolves to
  uuidCount,   \* number of identifiers crypto.randomUUID() has handed out
  globalKeys,  \* app.js: let keys (the key list the application holds)
  layers,      \* app.js: let layers
  currentLayer,\* app.js: let currentLayer
  selectedIds, \* render.js: let selectedIds
  rendered,    \* the last handler called renderKeyboard
  pending,     \* the chosen .dxf files whose text is still being read
  download,    \* the file the last Save offered for download
  savedState,  \* the keys and layers the application held at that Save
  imports,     \* the parseDXFFile calls so far: the file and what came of it
  lastHandler, \* the handler that ran last
  lastEvent,   \* the event it was given, for a click and a mouseup
  zoom,        \* app.js: let zoom, in hundredths
  panX,        \* app.js: let panX
  panY,        \* app.js: let panY
  isDragging,  \* app.js: let isDragging
  dragMoved,   \* app.js: let dragMoved
  lastX,       \* app.js: let lastX
  lastY,       \* app.js: let lastY
  press,       \* where the mouse button went down, and how far from there
               \* the mouse has been since
  viewport,    \* render.js: viewportGroup, the <g id="viewport"> and its transform
  isRubberBanding, \* render.js: let isRubberBanding
  rubberBand,  \* render.js: let rubberBand (TRUE when it holds a <rect>)
  rbListener,  \* the first mouseup listener setupRubberBand added to window,
               \* with what its closure holds
  inFlight,    \* a mouseup event app.js has handled and render.js has not yet
  editing,     \* the key group whose inline editor is open
  dispatched,  \* the last selectionChanged event
  panel        \* the values of the panel fields keyText, keyColor,
               \* keyTextColor and fontSize

viewVars == <<zoom, panX, panY, isDragging, dragMoved, lastX, lastY, press,
              viewport>>
rubberVars == <<isRubberBanding, rubberBand, rbListener, inFlight>>
panelVars == <<editing, dispatched, panel>>

appVars == <<globalKeys, layers, currentLayer, selectedIds, rendered, pending,
             download, savedState, imports, lastHandler, lastEvent,
             zoom, panX, panY, isDragging, dragMoved, lastX, lastY, press,
             viewport,
             isRubberBanding, rubberBand, rbListener, inFlight,
             editing, dispatched, panel>>

vars == <<entities, lines, pc, i, rectangles, keys, result, uuidCount,
          globalKeys, layers, currentLayer, selectedIds, rendered, pending,
          download, savedState, imports, lastHandler, lastEvent,
          zoom, panX, panY, isDragging, dragMoved, lastX, lastY, press,
          viewport,
          isRubberBanding, rubberBand, rbListener, inFlight,
          editing, dispatched, panel>>

----------------------------------------------------------------------------
(* JavaScript values *)

Undefined == [t |-> "undefined"]
Null      == [t |-> "null"]
NaN       == [t |-> "NaN"]
PosInf    == [t |-> "Infinity"]
NegInf    == [t |-> "-Infinity"]

\* A JS array holding the sequence s.
Array(s) == [t |-> "array", items |-> s]

\* The JS number h/2.
Halves(h) == [t |-> "number", v |-> h]
\* The JS number n, n an integer.
Num(n) == Halves(2 * n)

IsNum(a) == a.t = "number"

\* ToNumber, as Math.min / Math.max and the arithmetic operators apply it.
ToNumber(a) ==
  CASE a.t = "number"    -> a
    [] a.t = "Infinity"  -> a
    [] a.t = "-Infinity" -> a
    [] a.t = "null"      -> Num(0)
    [] OTHER             -> NaN

\* a - b
Sub(a, b) ==
  LET x == ToNumber(a)
      y == ToNumber(b)
  IN  IF x.t = "NaN" \/ y.t = "NaN" THEN NaN
      ELSE IF IsNum(x) /\ IsNum(y) THEN Halves(x.v - y.v)
      ELSE IF IsNum(y) THEN x
      ELSE IF x = y THEN NaN
      ELSE IF y = PosInf THEN NegInf ELSE PosInf

\* a + b
Add(a, b) ==
  LET x == ToNumber(a)
      y == ToNumber(b)
  IN  IF x.t = "NaN" \/ y.t = "NaN" THEN NaN
      ELSE IF IsNum(x) /\ IsNum(y) THEN Halves(x.v + y.v)
      ELSE IF IsNum(y) THEN x
      ELSE IF IsNum(x) THEN y
      ELSE IF x = y THEN x ELSE NaN

\* a * n for a positive integer literal n
Times(a, n) ==
  LET x == ToNumber(a)
  IN  IF IsNum(x) THEN Halves(x.v * n) ELSE x

\* a / 2 (exact: a is a sum of two integers wherever the pipeline divides)
Half(a) ==
  LET x == ToNumber(a)
  IN  IF IsNum(x) THEN Halves(x.v \div 2) ELSE x

\* a < n and a > n for an integer literal n; false when a is NaN
LessThan(a, n) ==
  LET x == ToNumber(a)
  IN  \/ x = NegInf
      \/ IsNum(x) /\ x.v < 2 * n

GreaterThan(a, n) ==
  LET x == ToNumber(a)
  IN  \/ x = PosInf
      \/ IsNum(x) /\ x.v > 2 * n

\* x <= y on non-NaN numbers
Leq(x, y) ==
  \/ x = NegInf
  \/ y = PosInf
  \/ IsNum(x) /\ IsNum(y) /\ x.v <= y.v

\* Math.min(...xs): Infinity for no argument, NaN as soon as one argument
\* converts to NaN.
MathMin(xs) ==
  LET ns == [k \in 1..Len(xs) |-> ToNumber(xs[k])]
  IN  IF Len(ns) = 0 THEN PosInf
      ELSE IF \E k \in 1..Len(ns) : ns[k].t = "NaN" THEN NaN
      ELSE ns[CHOOSE k \in 1..Len(ns) : \A j \in 1..Len(ns) : Leq(ns[k], ns[j])]

\* Math.max(...xs)
MathMax(xs) ==
  LET ns == [k \in 1..Len(xs) |-> ToNumber(xs[k])]
  IN  IF Len(ns) = 0 THEN NegInf
      ELSE IF \E k \in 1..Len(ns) : ns[k].t = "NaN" THEN NaN
      ELSE ns[CHOOSE k \in 1..Len(ns) : \A j \in 1..Len(ns) : Leq(ns[j], ns[k])]

\* Truthiness of the values a line's fields can hold.
Truthy(a) == a.t \in {"object", "array"}

\* arr.includes(undefined)
IncludesUndefined(xs) == \E k \in 1..Len(xs) : xs[k] = Undefined

----------------------------------------------------------------------------
(* parser.js *)

GROUP    == 4
MINSIZE  == 10
MAXSIZE  == 40
SCALE    == 4
MARGIN   == 50
FONTSIZE == 18

\* What a throwing call leaves instead of a value.
TypeError == [t |-> "TypeError"]

\* What parseSync leaves when it throws on a text it cannot decode.
DecodeError == [t |-> "DecodeError"]

\* No file.
NoFile == [t |-> "none"]

\* zoom is kept in tenths, fractions of a tenth dropped: its limits 0.2
\* and 5, and its value 1 at load and after Reset View
ZOOMMIN == 2
ZOOMMAX == 50
ZOOMONE == 10

\* The panel fields with no key selected: the values the selectionChanged
\* listener gives them for an empty selection.
PanelAtLoad ==
  [keyText |-> "", keyColor |-> "#ffffff", keyTextColor |-> "#000000",
   fontSize |-> "18"]

\* A getLinePoints that reads the last two vertices of a vertices array.
getLinePointsLastTwo(line) ==
  IF Truthy(line.start) /\ Truthy(line.end)
    THEN Array(<<line.start, line.end>>)
  ELSE IF Truthy(line.vertices) /\ Len(line.vertices.items) >= 2
    THEN Array(<<line.vertices.items[Len(line.vertices.items) - 1],
                 line.vertices.items[Len(line.vertices.items)]>>)
  ELSE Null

getLinePoints(line) ==
  IF Truthy(line.start) /\ Truthy(line.end)
    THEN Array(<<line.start, line.end>>)
  ELSE IF Truthy(line.vertices) /\ Len(line.vertices.items) >= 2
    THEN Array(<<line.vertices.items[1], line.vertices.items[2]>>)
  ELSE Null

\* A collection that gives the whole group up (no points) as soon as one of
\* its lines exposes no endpoints.
CollectPointsAllOrNone(ls) ==
  IF \E k \in 1..Len(ls) : ~Truthy(getLinePoints(ls[k])) THEN <<>>
  ELSE [k \in 1..(2 * Len(ls)) |->
          getLinePoints(ls[(k + 1) \div 2]).items[IF k % 2 = 1 THEN 1 ELSE 2]]

\* The points array buildRectangle collects from its lines.
RECURSIVE CollectPoints(_)
CollectPoints(ls) ==
  IF ls = <<>> THEN <<>>
  ELSE LET pts == getLinePoints(Head(ls))
       IN  IF ~Truthy(pts) THEN CollectPoints(Tail(ls))
           ELSE pts.items \o CollectPoints(Tail(ls))

\* A size filter that also rejects the limits themselves (<= and >=).
SizeRejectedAtLimits(width, height) ==
  \/ LessThan(width, MINSIZE + 1) \/ LessThan(height, MINSIZE + 1)
  \/ GreaterThan(width, MAXSIZE - 1) \/ GreaterThan(height, MAXSIZE - 1)

\* The size filter of buildRectangle: TRUE when the group is rejected.
SizeRejected(width, height) ==
  \/ LessThan(width, MINSIZE) \/ LessThan(height, MINSIZE)
  \/ GreaterThan(width, MAXSIZE) \/ GreaterThan(height, MAXSIZE)

\* Extrema taken from the first and the last collected point only, as if
\* these were opposite corners.
ExtremaOfCorners(xs, ys) ==
  [minX |-> MathMin(<<xs[1], xs[Len(xs)]>>), maxX |-> MathMax(<<xs[1], xs[Len(xs)]>>),
   minY |-> MathMin(<<ys[1], ys[Len(ys)]>>), maxY |-> MathMax(<<ys[1], ys[Len(ys)]>>)]

\* Extrema taken over the first point of every line only (every other
\* collected point).
ExtremaOfStarts(xs, ys) ==
  LET sx == [k \in 1..(Len(xs) \div 2) |-> xs[2 * k - 1]]
      sy == [k \in 1..(Len(ys) \div 2) |-> ys[2 * k - 1]]
  IN  [minX |-> MathMin(sx), maxX |-> MathMax(sx),
       minY |-> MathMin(sy), maxY |-> MathMax(sy)]

\* The extrema buildRectangle takes over the collected coordinates.
Extrema(xs, ys) ==
  [minX |-> MathMin(xs), maxX |-> MathMax(xs),
   minY |-> MathMin(ys), maxY |-> MathMax(ys)]

buildRectangle(ls) ==
  LET points == CollectPoints(ls)
  IN  IF Len(points) < 4 THEN Null
      ELSE IF \E k \in 1..Len(points) : points[k].t # "object" THEN TypeError
      ELSE
        LET xs == [k \in 1..Len(points) |-> points[k].x]
            ys == [k \in 1..Len(points) |-> points[k].y]
        IN  IF IncludesUndefined(xs) \/ IncludesUndefined(ys) THEN Null
            ELSE
              LET e      == Extrema(xs, ys)
                  width  == Sub(e.maxX, e.minX)
                  height == Sub(e.maxY, e.minY)
              IN  IF SizeRejected(width, height) THEN Null
                  ELSE [t      |-> "object",
                        cx     |-> Half(Add(e.minX, e.maxX)),
                        cy     |-> Half(Add(e.minY, e.maxY)),
                        width  |-> width,
                        height |-> height]

\* A style that fills in the text colour eagerly.
BaseStyleWithColor ==
  [text |-> "", bg |-> "#ffffff", color |-> "#000000", fontSize |-> FONTSIZE]

\* The style of the one layer a key is created with.
BaseStyle == [text |-> "", bg |-> "#ffffff", fontSize |-> FONTSIZE]

\* An identifier taken from the position of the key in its own key set.
IndexId(count, n) == n

\* crypto.randomUUID() for the n-th key of an import, count identifiers
\* having been handed out before: a value never handed out before.
FreshId(count, n) == count + n

\* A key whose rotation is taken from its identifier.
MakeKeyTurnedById(rect, id) ==
  [id       |-> id,
   x        |-> rect.cx,
   y        |-> rect.cy,
   width    |-> rect.width,
   height   |-> rect.height,
   rotation |-> id,
   layers   |-> [base |-> BaseStyle]]

\* The key object parseDXFFile makes of a rectangle; id is the fresh identifier.
MakeKey(rect, id) ==
  [id       |-> id,
   x        |-> rect.cx,
   y        |-> rect.cy,
   width    |-> rect.width,
   height   |-> rect.height,
   rotation |-> 0,
   layers   |-> [base |-> BaseStyle]]

\* A NormalizeKey that shifts y without flipping the axis.
NormalizeKeyNoFlip(k, minX, maxY) ==
  [k EXCEPT !.x      = Add(Times(Sub(k.x, minX), SCALE), Num(MARGIN)),
            !.y      = Add(Times(Sub(k.y, maxY), SCALE), Num(MARGIN)),
            !.width  = Times(k.width, SCALE),
            !.height = Times(k.height, SCALE)]

\* The new key normalizeKeys makes of k: {...k, x, y, width, height}.
NormalizeKey(k, minX, maxY) ==
  [k EXCEPT !.x      = Add(Times(Sub(k.x, minX), SCALE), Num(MARGIN)),
            !.y      = Add(Times(Sub(maxY, k.y), SCALE), Num(MARGIN)),
            !.width  = Times(k.width, SCALE),
            !.height = Times(k.height, SCALE)]

\* A normalizeKeys that hands the keys back in reverse order.
normalizeKeysReversed(ks) ==
  LET minX == MathMin([n \in 1..Len(ks) |-> ks[n].x])
      maxY == MathMax([n \in 1..Len(ks) |-> ks[n].y])
  IN  [n \in 1..Len(ks) |-> NormalizeKey(ks[Len(ks) + 1 - n], minX, maxY)]

normalizeKeys(ks) ==
  LET minX == MathMin([n \in 1..Len(ks) |-> ks[n].x])
      maxY == MathMax([n \in 1..Len(ks) |-> ks[n].y])
  IN  [n \in 1..Len(ks) |-> NormalizeKey(ks[n], minX, maxY)]

\* A loop that lets a short trailing group through.
IncompleteIgnored(group) == FALSE

\* if (group.length < 4) continue
Incomplete(group) == Len(group) < GROUP

\* A push that puts the new rectangle in front (unshift).
PushFront(rects, rect) == <<rect>> \o rects

\* rectangles.push(rect)
Push(rects, rect) == Append(rects, rect)

\* lines.slice(from, from + GROUP), from counted from 0 as in the code
Slice(ls, from) ==
  SubSeq(ls, from + 1, IF from + GROUP <= Len(ls) THEN from + GROUP ELSE Len(ls))

----------------------------------------------------------------------------
(* The drawings the decoder hands over *)

Pt(x, y) == [t |-> "object", x |-> Num(x), y |-> Num(y)]

\* A LINE entity exposing start / end.
SE(p, q) == [type |-> "LINE", start |-> p, end |-> q, vertices |-> Undefined]
\* A LINE entity exposing a vertices array.
VX(ps) == [type |-> "LINE", start |-> Undefined, end |-> Undefined,
           vertices |-> Array(ps)]
\* A LINE entity exposing neither.
NoEnds == [type |-> "LINE", start |-> Undefined, end |-> Undefined,
           vertices |-> Undefined]
\* An entity that is no LINE.
Circle == [type |-> "CIRCLE", start |-> Undefined, end |-> Undefined,
           vertices |-> Undefined]

\* The four sides of the w x h rectangle whose lower left corner is (ox, oy),
\* drawn counter-clockwise from the bottom side.
Outline(ox, oy, w, h) ==
  << SE(Pt(ox, oy),         Pt(ox + w, oy)),
     SE(Pt(ox + w, oy),     Pt(ox + w, oy + h)),
     SE(Pt(ox + w, oy + h), Pt(ox, oy + h)),
     SE(Pt(ox, oy + h),     Pt(ox, oy)) >>

\* The same outline exported with vertices arrays.
OutlineVX(ox, oy, w, h) ==
  [k \in 1..4 |-> VX(<<Outline(ox, oy, w, h)[k].start, Outline(ox, oy, w, h)[k].end>>)]

\* Widths and heights at and just beyond the limits of the size filter.
Sizes ==
  { <<MINSIZE, MINSIZE>>, <<MAXSIZE, MAXSIZE>>,
    <<MINSIZE, MAXSIZE>>, <<MAXSIZE, MINSIZE>>,
    <<MINSIZE - 1, MAXSIZE>>, <<MAXSIZE + 1, MINSIZE>>,
    <<MINSIZE, MINSIZE - 1>>, <<MAXSIZE, MAXSIZE + 1>> }

\* The outlines a drawing is made of.
Catalog ==
  {Outline(0, 0, wh[1], wh[2]) : wh \in Sizes}
    \cup {Outline(-10, -10, 20, 20), Outline(20, -10, 20, 20),
          Outline(-5, 25, 20, 15), OutlineVX(40, 40, 20, 20)}

\* Number of complete outlines in a drawing.
MaxGroups == 2

RECURSIVE Flatten(_)
Flatten(gs) == IF gs = <<>> THEN <<>> ELSE Head(gs) \o Flatten(Tail(gs))

\* Another entity in second place.
WithCircle(es) ==
  IF es = <<>> THEN <<Circle>> ELSE <<Head(es), Circle>> \o Tail(es)

\* Drawings: up to MaxGroups outlines, then 0 to 3 sides of one more outline,
\* with or without an entity that is no LINE.
Drawings ==
  LET plain == { Flatten(gs) \o SubSeq(Outline(100, 100, 20, 20), 1, r) :
                   gs \in UNION {[1..n -> Catalog] : n \in 0..MaxGroups},
                   r \in 0..(GROUP - 1) }
  IN  plain \cup {WithCircle(es) : es \in plain}

\* Points of single lines: four corners around the limits of the size filter,
\* and points with a coordinate that is no number.
PA == Pt(0, 0)
PB == Pt(10, 10)
PC == Pt(41, 1)
PD == Pt(1, 41)
PUndef == [t |-> "object", x |-> Undefined, y |-> Num(0)]
PNaN   == [t |-> "object", x |-> Num(0), y |-> NaN]
PNull  == [t |-> "object", x |-> Null, y |-> Num(10)]

LineSet ==
  { SE(PA, PB), SE(PB, PA), SE(PC, PD), SE(PD, PC),
    NoEnds,
    SE(PUndef, PUndef), SE(PNaN, PNaN), SE(PNull, PNull),
    VX(<<PB, PC, PA>>), VX(<<PC, PB, PA>>),
    VX(<<Null, Null>>) }

\* Drawings of one group of arbitrary lines.
SingleGroups == [1..GROUP -> LineSet]

----------------------------------------------------------------------------
(* parseDXFFile *)

\* The globals of app.js and render.js as the scripts initialise them.
AppStart ==
  /\ globalKeys = <<>>
  /\ layers = <<"base">>
  /\ currentLayer = "base"
  /\ selectedIds = {}
  /\ rendered = FALSE
  /\ pending = <<>>
  /\ download = NoFile
  /\ savedState = NoFile
  /\ imports = <<>>
  /\ lastHandler = "none"
  /\ lastEvent = Null
  /\ zoom = ZOOMONE
  /\ panX = 0
  /\ panY = 0
  /\ isDragging = FALSE
  /\ dragMoved = FALSE
  /\ lastX = 0
  /\ lastY = 0
  /\ press = Null
  /\ viewport = Null
  /\ isRubberBanding = FALSE
  /\ rubberBand = FALSE
  /\ rbListener = Null
  /\ inFlight = Null
  /\ editing = Null
  /\ dispatched = Null
  /\ panel = PanelAtLoad

Init ==
  /\ entities \in Drawings \cup SingleGroups
  /\ lines = <<>>
  /\ pc = "filter"
  /\ i = 0
  /\ rectangles = <<>>
  /\ keys = <<>>
  /\ result = Undefined
  /\ uuidCount = 0
  /\ AppStart

\* const lines = dxf.entities.filter(e => e.type === "LINE")
Filter ==
  /\ pc = "filter"
  /\ lines' = SelectSeq(entities, LAMBDA e : e.type = "LINE")
  /\ pc' = "loop"
  /\ UNCHANGED <<entities, i, rectangles, keys, result, uuidCount, appVars>>

\* One iteration of for (let i = 0; i < lines.length; i += 4)
LoopStep ==
  /\ pc = "loop"
  /\ i < Len(lines)
  /\ LET group == Slice(lines, i)
         rect  == buildRectangle(group)
     IN  IF Incomplete(group)
           THEN /\ i' = i + GROUP
                /\ UNCHANGED <<rectangles, pc>>
         ELSE IF rect = TypeError
           THEN /\ pc' = "error"
                /\ UNCHANGED <<rectangles, i>>
         ELSE IF rect = Null
           THEN /\ i' = i + GROUP
                /\ UNCHANGED <<rectangles, pc>>
         ELSE /\ rectangles' = Push(rectangles, rect)
              /\ i' = i + GROUP
              /\ UNCHANGED pc
  /\ UNCHANGED <<entities, lines, keys, result, uuidCount, appVars>>

\* After the loop: const keys = rectangles.map(rect => ({id: ..., ...}))
Assemble ==
  /\ pc = "loop"
  /\ i >= Len(lines)
  /\ keys' = [n \in 1..Len(rectangles) |->
               MakeKey(rectangles[n], FreshId(uuidCount, n))]
  /\ uuidCount' = uuidCount + Len(rectangles)
  /\ pc' = "normalize"
  /\ UNCHANGED <<entities, lines, i, rectangles, result, appVars>>

\* return normalizeKeys(keys)
Normalize ==
  /\ pc = "normalize"
  /\ result' = normalizeKeys(keys)
  /\ pc' = "done"
  /\ UNCHANGED <<entities, lines, i, rectangles, keys, uuidCount, appVars>>

Next == Filter \/ LoopStep \/ Assemble \/ Normalize

Spec == Init /\ [][Next]_vars

----------------------------------------------------------------------------
(* app.js: the layout file of Save and Load *)

\* JSON.stringify of a number: NaN and the infinities are written as null.
JSONNumber(a) ==
  IF a.t = "number" THEN [json |-> "number", v |-> a.v] ELSE [json |-> "null"]

\* JSON.parse of a number or null of the text.
ParsedNumber(d) == IF d.json = "number" THEN Halves(d.v) ELSE Null

\* k.rotation || 0
RotationOr0(r) == IF r = 0 THEN 0 ELSE r

\* The entry Save makes of a key.
SavedKey(k) ==
  [id       |-> k.id,
   x        |-> k.x,
   y        |-> k.y,
   width    |-> k.width,
   height   |-> k.height,
   rotation |-> RotationOr0(k.rotation),
   layers   |-> k.layers]

\* const payload = {version: 1, savedAt, layers, keys: keys.map(...)}
Payload(ks, ls) ==
  [version |-> 1,
   savedAt |-> "now",
   layers  |-> ls,
   keys    |-> [n \in 1..Len(ks) |-> SavedKey(ks[n])]]

\* JSON.stringify(payload, null, 2): the text, as the JSON document it spells.
JSONstringify(p) ==
  [p EXCEPT !.keys = [n \in 1..Len(p.keys) |->
     [p.keys[n] EXCEPT !.x      = JSONNumber(@),
                       !.y      = JSONNumber(@),
                       !.width  = JSONNumber(@),
                       !.height = JSONNumber(@)]]]

\* JSON.parse(text): the object the document denotes.
JSONparse(doc) ==
  [doc EXCEPT !.keys = [n \in 1..Len(doc.keys) |->
     [doc.keys[n] EXCEPT !.x      = ParsedNumber(@),
                         !.y      = ParsedNumber(@),
                         !.width  = ParsedNumber(@),
                         !.height = ParsedNumber(@)]]]

----------------------------------------------------------------------------
(* render.js and app.js: the canvas, its view and the selection *)

LAYER_GAP          == 80
LAYER_LABEL_HEIGHT == 28
\* getKeysHeight: the height of an empty block, and the padding of a block
EMPTYHEIGHT == 400
PADDING     == 60
\* A move of more than this many pixels makes a press a drag
SLOP == 2
\* A rubber band smaller than this in both dimensions selects nothing
MINBOX == 4

Abs(n) == IF n < 0 THEN -n ELSE n

\* a < b on JS numbers: false as soon as one side is NaN
Less(a, b) ==
  LET x == ToNumber(a)
      y == ToNumber(b)
  IN  x.t # "NaN" /\ y.t # "NaN" /\ x # y /\ Leq(x, y)

\* n * a for an integer n >= 0
Mul(n, a) ==
  LET x == ToNumber(a)
  IN  IF IsNum(x) THEN Halves(n * x.v)
      ELSE IF n = 0 THEN NaN ELSE x

\* `${n}` for the number t/10: its sign, its digits before and after the
\* point, and whether it is written with an exponent (only numbers of
\* 1e21 and more or below 1e-6 are).
NumberToString(t) ==
  [neg |-> t < 0, int |-> Abs(t) \div 10, frac |-> Abs(t) % 10,
   exp |-> FALSE]

\* parseFloat(s), in tenths
parseFloat(s) == (IF s.neg THEN -1 ELSE 1) * (s.int * 10 + s.frac)

\* `translate(${panX}, ${panY}) scale(${zoom})`
TransformText(px, py, z) ==
  [x |-> NumberToString(10 * px), y |-> NumberToString(10 * py),
   scale |-> NumberToString(z)]

\* oldTransform.match(/translate\(([-\d.]+),\s*([-\d.]+)\)\s*scale\(([-\d.]+)\)/):
\* the three captures, or null when a number is not made of -, digits and .
Match(tr) ==
  IF tr.x.exp \/ tr.y.exp \/ tr.scale.exp THEN Null
  ELSE [t |-> "match", x |-> tr.x, y |-> tr.y, scale |-> tr.scale]

\* updateViewport(): no-op until the first render made a viewport
updateViewport(vp, px, py, z) ==
  IF vp = Null THEN vp ELSE [vp EXCEPT !.transform = TransformText(px, py, z)]

\* getKeysHeight(keys)
getKeysHeight(ks) ==
  IF Len(ks) = 0 THEN Num(EMPTYHEIGHT)
  ELSE LET maxY == MathMax([n \in 1..Len(ks) |-> Add(ks[n].y, Half(ks[n].height))])
           minY == MathMin([n \in 1..Len(ks) |-> Sub(ks[n].y, Half(ks[n].height))])
       IN  Add(Sub(maxY, minY), Num(PADDING))

\* allLayers.indexOf(name), name being in ls
IndexOf(ls, name) ==
  IF \E n \in 1..Len(ls) : ls[n] = name
    THEN (CHOOSE n \in 1..Len(ls) :
            ls[n] = name /\ \A m \in 1..(n - 1) : ls[m] # name) - 1
    ELSE -1

\* offsetY of the block of a layer, plus the height of its label: where the
\* keys of the block start
BlockTop(ls, name, blockHeight) ==
  Add(Mul(IndexOf(ls, name),
          Add(blockHeight, Num(LAYER_GAP + LAYER_LABEL_HEIGHT))),
      Num(LAYER_LABEL_HEIGHT))

\* svgPoint(clientX, clientY): the point in the coordinates of the viewport
\* as its transform attribute places it, in halves (the canvas has its
\* origin at the origin of the window)
svgPoint(vp, cx, cy) ==
  IF vp = Null \/ vp.transform = Null THEN [x |-> 2 * cx, y |-> 2 * cy]
  ELSE LET tx == parseFloat(vp.transform.x) \div 10
           ty == parseFloat(vp.transform.y) \div 10
           s  == parseFloat(vp.transform.scale)
       IN  [x |-> (20 * (cx - tx)) \div s, y |-> (20 * (cy - ty)) \div s]

\* The selection box between two points: selX, selY, selW, selH, in halves
Box(p, q) ==
  [x |-> IF p.x < q.x THEN p.x ELSE q.x,
   y |-> IF p.y < q.y THEN p.y ELSE q.y,
   w |-> Abs(p.x - q.x),
   h |-> Abs(p.y - q.y)]

\* selW < 4 && selH < 4
TooSmall(box) == box.w < 2 * MINBOX /\ box.h < 2 * MINBOX

\* const overlaps = !(kx + key.width < selX || kx > selX + selW ||
\*                    ky + key.height < selY || ky > selY + selH)
Overlaps(key, top, box) ==
  LET kx == Sub(key.x, Half(key.width))
      ky == Add(Sub(key.y, Half(key.height)), top)
  IN  ~ \/ Less(Add(kx, key.width), Halves(box.x))
        \/ Less(Halves(box.x + box.w), kx)
        \/ Less(Add(ky, key.height), Halves(box.y))
        \/ Less(Halves(box.y + box.h), ky)

\* document.querySelector(`#viewport g[data-key-id="${id}"][data-layer="${name}"]`)
\* finds a group: buildKeyElement made one for every layer of the list and
\* every key with a style on that layer.
HasGroup(id, name) ==
  /\ viewport # Null
  /\ name \in {layers[n] : n \in 1..Len(layers)}
  /\ \E n \in 1..Len(globalKeys) :
       globalKeys[n].id = id /\ name \in DOMAIN globalKeys[n].layers

\* The keys a release adds to the selection: those of the listener's key
\* list that overlap the box in the block of the listener's layer and have
\* a group there.
Overlapping(listener, box) ==
  LET top == BlockTop(listener.allLayers, listener.currentLayer,
                      listener.blockHeight)
  IN  {listener.keys[n].id : n \in
         {m \in 1..Len(listener.keys) :
            /\ Overlaps(listener.keys[m], top, box)
            /\ HasGroup(listener.keys[m].id, listener.currentLayer)}}

\* What setupRubberBand's listeners keep of the render that added them.
Listener(ks, cur, ls) ==
  [keys |-> ks, currentLayer |-> cur, allLayers |-> ls,
   blockHeight |-> getKeysHeight(ks), rbStartSVG |-> Null, sameArray |-> TRUE]

\* layer.color || "#000000"
ColorOr(l) ==
  IF "color" \in DOMAIN l /\ l.color # "" THEN l.color ELSE "#000000"

\* The text a number field shows for a font size, and parseInt(text, 10) of
\* the texts a number field can hold.
FontSizeText(n) ==
  CASE n = 12 -> "12" [] n = 18 -> "18" [] n = 24 -> "24" [] OTHER -> "?"

parseInt(s) ==
  CASE s = "12" -> Num(12) [] s = "18" -> Num(18) [] s = "24" -> Num(24)
    [] s = "12.5" -> Num(12) [] s = "0" -> Num(0) [] OTHER -> NaN

\* The panel after the selectionChanged listener of app.js ran for ids, the
\* key list being ks and the current layer cur.
PanelAfter(ids, ks, cur) ==
  LET sel    == {n \in 1..Len(ks) : ks[n].id \in ids}
      throws == sel = {} \/ \E n \in sel : cur \notin DOMAIN ks[n].layers
      ls     == {ks[n].layers[cur] : n \in sel}
      l0     == CHOOSE l \in ls : TRUE
  IN  IF ids = {} THEN PanelAtLoad
      ELSE IF Cardinality(ids) = 1
        THEN IF throws THEN panel
             ELSE [keyText      |-> l0.text,
                   keyColor     |-> l0.bg,
                   keyTextColor |-> ColorOr(l0),
                   fontSize     |-> FontSizeText(l0.fontSize)]
      ELSE IF throws THEN panel
      ELSE [panel EXCEPT
              !.keyColor     = IF \A l \in ls : l.bg = l0.bg
                                 THEN l0.bg ELSE "#ffffff",
              !.keyTextColor = IF \A l \in ls : ColorOr(l) = ColorOr(l0)
                                 THEN ColorOr(l0) ELSE "#000000",
              !.fontSize     = IF \A l \in ls : l.fontSize = l0.fontSize
                                 THEN FontSizeText(l0.fontSize) ELSE ""]

\* updateSelectionPanel(): the event, and what its listener does to the panel
updateSelectionPanel(ids, ks, cur) ==
  /\ dispatched' = [t |-> "selectionChanged", ids |-> ids]
  /\ panel' = PanelAfter(ids, ks, cur)

\* A renderKeyboard that gives the new viewport no transform.
renderKeyboardUnplaced(ks, cur, ls, listener) ==
  LET oldTransform == IF viewport = Null THEN Null ELSE viewport.transform
      match == IF oldTransform = Null THEN Null ELSE Match(oldTransform)
  IN  /\ selectedIds' = {}
      /\ updateSelectionPanel({}, ks, cur)
      /\ editing' = Null
      /\ viewport' = [t |-> "g", transform |-> Null]
      /\ rbListener' = IF listener = Null THEN Listener(ks, cur, ls)
                       ELSE listener
      /\ IF match # Null
           THEN /\ panX' = parseFloat(match.x) \div 10
                /\ panY' = parseFloat(match.y) \div 10
                /\ zoom' = parseFloat(match.scale)
           ELSE UNCHANGED <<panX, panY, zoom>>
      /\ rendered' = TRUE
      /\ UNCHANGED <<isDragging, dragMoved, lastX, lastY, press,
                     isRubberBanding, rubberBand, inFlight>>

\* A renderKeyboard that redraws without touching the selection.
renderKeyboardKeepingSelection(ks, cur, ls, listener) ==
  LET oldTransform == IF viewport = Null THEN Null ELSE viewport.transform
      match == IF oldTransform = Null THEN Null ELSE Match(oldTransform)
  IN  /\ UNCHANGED <<selectedIds, dispatched, panel>>
      /\ editing' = Null
      /\ viewport' = [t |-> "g", transform |-> oldTransform]
      /\ rbListener' = IF listener = Null THEN Listener(ks, cur, ls)
                       ELSE listener
      /\ IF match # Null
           THEN /\ panX' = parseFloat(match.x) \div 10
                /\ panY' = parseFloat(match.y) \div 10
                /\ zoom' = parseFloat(match.scale)
           ELSE UNCHANGED <<panX, panY, zoom>>
      /\ rendered' = TRUE
      /\ UNCHANGED <<isDragging, dragMoved, lastX, lastY, press,
                     isRubberBanding, rubberBand, inFlight>>

\* renderKeyboard(ks, cur), ls being the layer list and listener what
\* window already holds of an earlier setupRubberBand
renderKeyboard(ks, cur, ls, listener) ==
  LET oldTransform == IF viewport = Null THEN Null ELSE viewport.transform
      match == IF oldTransform = Null THEN Null ELSE Match(oldTransform)
  IN  /\ selectedIds' = {}
      /\ updateSelectionPanel({}, ks, cur)
      /\ editing' = Null
      /\ viewport' = [t |-> "g", transform |-> oldTransform]
      /\ rbListener' = IF listener = Null THEN Listener(ks, cur, ls)
                       ELSE listener
      /\ IF match # Null
           THEN /\ panX' = parseFloat(match.x) \div 10
                /\ panY' = parseFloat(match.y) \div 10
                /\ zoom' = parseFloat(match.scale)
           ELSE UNCHANGED <<panX, panY, zoom>>
      /\ rendered' = TRUE
      /\ UNCHANGED <<isDragging, dragMoved, lastX, lastY, press,
                     isRubberBanding, rubberBand, inFlight>>

\* No handler is running and no event is half way through its listeners.
Idle == pc = "idle" /\ inFlight = Null

----------------------------------------------------------------------------
(* app.js: the files a user can choose, and the handlers *)

MaxImports == 2
MaxPending == 1

DxfFile(es) == [dxf |-> TRUE, decodes |-> TRUE, entities |-> es]
\* A .dxf file the decoder throws on, and a file that is no .dxf.
BadDxf == [dxf |-> TRUE, decodes |-> FALSE, entities |-> <<>>]
NotDxf == [dxf |-> FALSE, decodes |-> FALSE, entities |-> <<>>]

\* Drawings of one key, of two keys, and of one group with a NaN coordinate.
OneKey  == Outline(0, 0, 20, 20)
TwoKeys == Outline(0, 0, 20, 20) \o Outline(30, 5, 40, 10)
NaNKey  == <<SE(PNaN, PNaN), SE(PA, PB), SE(PB, PA), SE(PA, PB)>>

Files == {NotDxf, BadDxf, DxfFile(OneKey), DxfFile(TwoKeys), DxfFile(NaNKey)}

\* What the user can answer to prompt("Layer name:"); "" is Cancel or nothing.
Answers == {"", "base", "fn"}

Names(ls) == {ls[n] : n \in 1..Len(ls)}

parserLocals == <<lines, i, rectangles, keys, result>>

AppInit ==
  /\ entities = <<>>
  /\ lines = <<>>
  /\ pc = "idle"
  /\ i = 0
  /\ rectangles = <<>>
  /\ keys = <<>>
  /\ result = Undefined
  /\ uuidCount = 0
  /\ AppStart

\* fileInput "change": the handler up to  await file.text(), at most `most`
\* files being read at a time
ChooseFileWithin(f, most) ==
  /\ Idle
  /\ IF f.dxf
       THEN /\ Len(pending) < most
            /\ Len(imports) + Len(pending) < MaxImports
            /\ pending' = Append(pending, f)
       ELSE UNCHANGED pending
  /\ rendered' = FALSE
  /\ lastHandler' = "choose"
  /\ lastEvent' = Null
  /\ UNCHANGED <<entities, pc, parserLocals, uuidCount, globalKeys, layers,
                 currentLayer, selectedIds, download, savedState, imports,
                 viewVars, rubberVars, panelVars>>

ChooseFile(f) == ChooseFileWithin(f, MaxPending)

\* The text of the k-th pending file has been read:
\* const dxf = parser.parseSync(text), which throws on a text it cannot decode.
Decode(k) ==
  /\ Idle
  /\ k \in 1..Len(pending)
  /\ pending' = [n \in 1..(Len(pending) - 1) |->
                   IF n < k THEN pending[n] ELSE pending[n + 1]]
  /\ imports' = Append(imports, [file |-> pending[k], outcome |-> Undefined])
  /\ IF pending[k].decodes
       THEN entities' = pending[k].entities /\ pc' = "filter"
       ELSE UNCHANGED entities /\ pc' = "throw"
  /\ lines' = <<>> /\ i' = 0 /\ rectangles' = <<>> /\ keys' = <<>>
  /\ result' = Undefined
  /\ rendered' = FALSE
  /\ UNCHANGED <<uuidCount, globalKeys, layers, currentLayer, selectedIds,
                 download, savedState, lastHandler, lastEvent,
                 viewVars, rubberVars, panelVars>>

\* A handler that, when the import fails, empties the key list and redraws.
ImportRejectedClearingKeys ==
  /\ pc \in {"error", "throw"}
  /\ imports' = [imports EXCEPT ![Len(imports)].outcome =
                   IF pc = "error" THEN TypeError ELSE DecodeError]
  /\ pc' = "idle"
  /\ globalKeys' = <<>>
  /\ selectedIds' = {}
  /\ rendered' = TRUE
  /\ lastHandler' = "reject"
  /\ lastEvent' = Null
  /\ UNCHANGED <<entities, parserLocals, uuidCount, layers, currentLayer,
                 pending, download, savedState,
                 viewVars, rubberVars, panelVars>>

\* parseDXFFile threw: the promise is rejected and the rest of the handler
\* (keys = ..., renderKeyboard) does not run.
ImportRejected ==
  /\ pc \in {"error", "throw"}
  /\ imports' = [imports EXCEPT ![Len(imports)].outcome =
                   IF pc = "error" THEN TypeError ELSE DecodeError]
  /\ pc' = "idle"
  /\ rendered' = FALSE
  /\ lastHandler' = "reject"
  /\ lastEvent' = Null
  /\ UNCHANGED <<entities, parserLocals, uuidCount, globalKeys, layers,
                 currentLayer, selectedIds, pending, download, savedState,
                 viewVars, rubberVars, panelVars>>

\* keys = await parseDXFFile(file); renderKeyboard(keys, currentLayer)
ImportDone ==
  /\ pc = "done"
  /\ globalKeys' = result
  /\ renderKeyboard(globalKeys', currentLayer, layers, rbListener)
  /\ imports' = [imports EXCEPT ![Len(imports)].outcome = Array(result)]
  /\ pc' = "idle"
  /\ lastHandler' = "import"
  /\ lastEvent' = Null
  /\ UNCHANGED <<entities, parserLocals, uuidCount, layers, currentLayer,
                 pending, download, savedState>>

\* The style Add Layer gives a key on the new layer, src being its style on
\* the current layer.
NewStyle(src) ==
  [text     |-> "",
   bg       |-> "#ffffff",
   color    |-> IF "color" \in DOMAIN src /\ src.color # ""
                  THEN src.color ELSE "#000000",
   fontSize |-> src.fontSize]

WithLayer(key, newName) ==
  [key EXCEPT !.layers = @ @@ (newName :> NewStyle(key.layers[currentLayer]))]

\* addLayerBtn "click"
AddLayer(newName) ==
  /\ Idle
  /\ LET missing == {n \in 1..Len(globalKeys) :
                       currentLayer \notin DOMAIN globalKeys[n].layers}
     IN  IF newName = "" \/ newName \in Names(layers)
           THEN /\ rendered' = FALSE
                /\ UNCHANGED <<globalKeys, layers, currentLayer, selectedIds,
                               viewVars, rubberVars, panelVars>>
         ELSE IF missing # {}
           \* src is undefined for the first such key: src.color throws
           THEN /\ globalKeys' = [n \in 1..Len(globalKeys) |->
                     IF \A m \in missing : n < m
                       THEN WithLayer(globalKeys[n], newName)
                       ELSE globalKeys[n]]
                /\ rendered' = FALSE
                /\ UNCHANGED <<layers, currentLayer, selectedIds,
                               viewVars, rubberVars, panelVars>>
         ELSE /\ globalKeys' = [n \in 1..Len(globalKeys) |->
                                  WithLayer(globalKeys[n], newName)]
              /\ layers' = Append(layers, newName)
              /\ currentLayer' = newName
              \* layers.push: a listener that holds this array sees the name
              /\ renderKeyboard(globalKeys', newName, layers',
                   IF rbListener # Null /\ rbListener.sameArray
                     THEN [rbListener EXCEPT !.allLayers = layers']
                     ELSE rbListener)
  /\ lastHandler' = "addLayer"
  /\ lastEvent' = [t |-> "prompt", newName |-> newName]
  /\ UNCHANGED <<entities, pc, parserLocals, uuidCount, pending, download,
                 savedState, imports>>

\* layerSelect "change"
SwitchLayer(name) ==
  /\ Idle
  /\ name \in Names(layers) \ {currentLayer}
  /\ currentLayer' = name
  /\ renderKeyboard(globalKeys, name, layers, rbListener)
  /\ lastHandler' = "switchLayer"
  /\ lastEvent' = Null
  /\ UNCHANGED <<entities, pc, parserLocals, uuidCount, globalKeys, layers,
                 pending, download, savedState, imports>>

\* A click that, with Shift, only ever adds the key to the selection.
ClickAddingOnly(n, shiftKey) ==
  /\ Idle
  /\ n \in 1..Len(globalKeys)
  /\ HasGroup(globalKeys[n].id, currentLayer)
  /\ LET id == globalKeys[n].id
     IN  IF editing # Null /\ editing.id = id
           \* if (fo.style.display !== "none") return
           THEN UNCHANGED <<selectedIds, dispatched, panel>>
           ELSE /\ selectedIds' =
                     IF shiftKey
                       THEN selectedIds \cup {id}
                       ELSE {id}
                /\ updateSelectionPanel(selectedIds', globalKeys, currentLayer)
  /\ rendered' = FALSE
  /\ lastHandler' = "click"
  /\ lastEvent' = [t |-> "click", id |-> globalKeys[n].id,
                   shiftKey |-> shiftKey]
  /\ UNCHANGED <<entities, pc, parserLocals, uuidCount, globalKeys, layers,
                 currentLayer, pending, download, savedState, imports,
                 viewVars, rubberVars, editing>>

\* A click on the key n as drawn in the block of the current layer, with
\* or without Shift.
Click(n, shiftKey) ==
  /\ Idle
  /\ n \in 1..Len(globalKeys)
  /\ HasGroup(globalKeys[n].id, currentLayer)
  /\ LET id == globalKeys[n].id
     IN  IF editing # Null /\ editing.id = id
           \* if (fo.style.display !== "none") return
           THEN UNCHANGED <<selectedIds, dispatched, panel>>
           ELSE /\ selectedIds' =
                     IF shiftKey
                       THEN IF id \in selectedIds
                              THEN selectedIds \ {id}
                              ELSE selectedIds \cup {id}
                       ELSE {id}
                /\ updateSelectionPanel(selectedIds', globalKeys, currentLayer)
  /\ rendered' = FALSE
  /\ lastHandler' = "click"
  /\ lastEvent' = [t |-> "click", id |-> globalKeys[n].id,
                   shiftKey |-> shiftKey]
  /\ UNCHANGED <<entities, pc, parserLocals, uuidCount, globalKeys, layers,
                 currentLayer, pending, download, savedState, imports,
                 viewVars, rubberVars, editing>>

\* saveLayoutBtn "click"
Save ==
  /\ Idle
  /\ IF Len(globalKeys) = 0
       THEN UNCHANGED <<download, savedState>>
       ELSE /\ download' = JSONstringify(Payload(globalKeys, layers))
            /\ savedState' = [keys |-> globalKeys, layers |-> layers]
  /\ rendered' = FALSE
  /\ lastHandler' = "save"
  /\ lastEvent' = Null
  /\ UNCHANGED <<entities, pc, parserLocals, uuidCount, globalKeys, layers,
                 currentLayer, selectedIds, pending, imports,
                 viewVars, rubberVars, panelVars>>

\* layers[0], as the property name it is used as: "undefined" when there is
\* no first element
NoLayer == "undefined"
First(ls) == IF Len(ls) = 0 THEN NoLayer ELSE ls[1]

\* loadLayoutInput "change" with the downloaded file, and reader.onload
Load ==
  /\ Idle
  /\ download # NoFile
  /\ LET payload == JSONparse(download)
         loaded  == IF "layers" \in DOMAIN payload
                      THEN payload.layers ELSE <<"base">>
     IN  IF "keys" \notin DOMAIN payload
           \* alert("Invalid layout file.")
           THEN /\ rendered' = FALSE
                /\ UNCHANGED <<globalKeys, layers, currentLayer, selectedIds,
                               viewVars, rubberVars, panelVars>>
           ELSE /\ globalKeys' = payload.keys
                /\ layers' = loaded
                /\ currentLayer' = First(loaded)
                \* layers names a new array: a listener keeps the old one
                /\ renderKeyboard(globalKeys', currentLayer', layers',
                     IF rbListener # Null
                       THEN [rbListener EXCEPT !.sameArray = FALSE]
                       ELSE rbListener)
  /\ lastHandler' = "load"
  /\ lastEvent' = Null
  /\ UNCHANGED <<entities, pc, parserLocals, uuidCount, pending, download,
                 savedState, imports>>

\* The layout files a user can choose besides the downloaded one: the text
\* is valid JSON or not, and doc is the value it denotes.
NotJson     == [valid |-> FALSE, doc |-> Undefined]
Document(d) == [valid |-> TRUE, doc |-> d]

\* A key of a layout file, styled on "base" only.
FileKey ==
  [id |-> 1, x |-> Num(20), y |-> Num(20), width |-> Num(40),
   height |-> Num(40), rotation |-> 0, layers |-> [base |-> BaseStyle]]

Layouts ==
  { NotJson,
    Document(Null),
    Document([keys |-> Undefined, layers |-> Array(<<"base">>)]),
    Document([keys |-> [t |-> "string", v |-> "none"],
              layers |-> Array(<<"base">>)]),
    Document([keys |-> Array(<<>>), layers |-> Undefined]),
    Document([keys |-> Array(<<FileKey>>), layers |-> Undefined]),
    Document([keys |-> Array(<<FileKey>>), layers |-> Array(<<>>)]),
    Document([keys |-> Array(<<FileKey>>), layers |-> Array(<<"fn", "fn">>)]),
    Document([keys |-> Array(<<FileKey>>), layers |-> Array(<<"fn", "base">>)]) }

\* !payload.keys || !Array.isArray(payload.keys)
IsArray(v) == v.t = "array"

\* payload.layers || ["base"]: an array, also an empty one, is truthy
LayersOr(v) == IF v = Undefined \/ v = Null THEN <<"base">> ELSE v.items

\* An onload that starts from an empty layout when the file is no layout.
LoadFileUnchecked(f) ==
  /\ Idle
  /\ IF f.valid /\ f.doc # Null /\ IsArray(f.doc.keys)
       THEN /\ globalKeys' = f.doc.keys.items
            /\ layers' = LayersOr(f.doc.layers)
            /\ currentLayer' = First(layers')
            /\ renderKeyboard(globalKeys', currentLayer', layers',
                 IF rbListener # Null
                   THEN [rbListener EXCEPT !.sameArray = FALSE]
                   ELSE rbListener)
       ELSE /\ globalKeys' = <<>>
            /\ layers' = <<"base">>
            /\ currentLayer' = "base"
            /\ renderKeyboard(globalKeys', currentLayer', layers',
                 IF rbListener # Null
                   THEN [rbListener EXCEPT !.sameArray = FALSE]
                   ELSE rbListener)
  /\ lastHandler' = "loadFile"
  /\ lastEvent' = [t |-> "layout", file |-> f]
  /\ UNCHANGED <<entities, pc, parserLocals, uuidCount, pending, download,
                 savedState, imports>>

\* loadLayoutInput "change" with the layout file f: the handler only starts
\* the read, this is reader.onload
LoadFile(f) ==
  /\ Idle
  /\ IF ~f.valid
       \* JSON.parse throws: alert("Failed to load layout: ...")
       THEN /\ rendered' = FALSE
            /\ UNCHANGED <<globalKeys, layers, currentLayer, selectedIds,
                           viewVars, rubberVars, panelVars>>
     ELSE IF f.doc = Null
       \* payload.keys throws a TypeError, which the catch reports
       THEN /\ rendered' = FALSE
            /\ UNCHANGED <<globalKeys, layers, currentLayer, selectedIds,
                           viewVars, rubberVars, panelVars>>
     ELSE IF f.doc.keys = Undefined \/ ~IsArray(f.doc.keys)
       \* alert("Invalid layout file.")
       THEN /\ rendered' = FALSE
            /\ UNCHANGED <<globalKeys, layers, currentLayer, selectedIds,
                           viewVars, rubberVars, panelVars>>
       ELSE /\ globalKeys' = f.doc.keys.items
            /\ layers' = LayersOr(f.doc.layers)
            /\ currentLayer' = First(layers')
            \* layers names a new array: a listener keeps the old one
            /\ renderKeyboard(globalKeys', currentLayer', layers',
                 IF rbListener # Null
                   THEN [rbListener EXCEPT !.sameArray = FALSE]
                   ELSE rbListener)
  /\ lastHandler' = "loadFile"
  /\ lastEvent' = [t |-> "layout", file |-> f]
  /\ UNCHANGED <<entities, pc, parserLocals, uuidCount, pending, download,
                 savedState, imports>>

----------------------------------------------------------------------------
(* app.js and render.js: the mouse, the wheel and the panel *)

MaxPan == 4

\* The listeners that leave the model of the import alone.
onCanvas == <<entities, pc, parserLocals, uuidCount, pending, download,
              savedState, imports>>

\* Some key is drawn: a mouse event can have a key group as its target.
SomeGroup ==
  \E n \in 1..Len(globalKeys) : \E m \in 1..Len(layers) :
    HasGroup(globalKeys[n].id, layers[m])

\* zoom after a wheel tick without the clamp.
WheelZoomUnclamped(z, up) ==
  IF up THEN (z * 11) \div 10 ELSE (z * 9) \div 10

\* zoom *= e.deltaY < 0 ? 1.1 : 0.9; zoom = Math.min(Math.max(zoom, 0.2), 5)
WheelZoom(z, up) ==
  LET scaled == IF up THEN (z * 11) \div 10 ELSE (z * 9) \div 10
      atLeast == IF scaled > ZOOMMIN THEN scaled ELSE ZOOMMIN
  IN  IF atLeast < ZOOMMAX THEN atLeast ELSE ZOOMMAX

\* svg "wheel"
Wheel(up) ==
  /\ Idle
  /\ zoom' = WheelZoom(zoom, up)
  /\ viewport' = updateViewport(viewport, panX, panY, zoom')
  /\ rendered' = FALSE
  /\ lastHandler' = "wheel"
  /\ lastEvent' = Null
  /\ UNCHANGED <<onCanvas, globalKeys, layers, currentLayer, selectedIds,
                 panX, panY, isDragging, dragMoved, lastX, lastY, press,
                 rubberVars, panelVars>>

\* resetView "click"
ResetView ==
  /\ Idle
  /\ zoom' = ZOOMONE
  /\ panX' = 0
  /\ panY' = 0
  /\ viewport' = updateViewport(viewport, 0, 0, ZOOMONE)
  /\ rendered' = FALSE
  /\ lastHandler' = "resetView"
  /\ lastEvent' = Null
  /\ UNCHANGED <<onCanvas, globalKeys, layers, currentLayer, selectedIds,
                 isDragging, dragMoved, lastX, lastY, press,
                 rubberVars, panelVars>>

\* svg "mousedown" at (x, y), on a key group or not: the listener of app.js,
\* then those of setupRubberBand
MouseDown(x, y, onKey) ==
  /\ Idle
  /\ onKey => SomeGroup
  /\ isDragging' = TRUE
  /\ dragMoved' = FALSE
  /\ lastX' = x
  /\ lastY' = y
  /\ press' = [x |-> x, y |-> y, far |-> 0]
  /\ IF rbListener # Null /\ ~onKey
       THEN /\ isRubberBanding' = TRUE
            /\ rubberBand' = TRUE
            /\ rbListener' = [rbListener EXCEPT
                                !.rbStartSVG = svgPoint(viewport, x, y)]
       ELSE UNCHANGED <<isRubberBanding, rubberBand, rbListener>>
  /\ rendered' = FALSE
  /\ lastHandler' = "mousedown"
  /\ lastEvent' = Null
  /\ UNCHANGED <<onCanvas, globalKeys, layers, currentLayer, selectedIds,
                 zoom, panX, panY, viewport, inFlight, panelVars>>

\* window "mousemove" at (x, y) while the button is down (the listener of
\* setupRubberBand only redraws the rectangle)
MouseMove(x, y) ==
  /\ Idle
  /\ isDragging
  /\ LET dx == x - lastX
         dy == y - lastY
     IN  /\ dragMoved' = (dragMoved \/ Abs(dx) > SLOP \/ Abs(dy) > SLOP)
         /\ panX' = panX + dx
         /\ panY' = panY + dy
         /\ Abs(panX') <= MaxPan /\ Abs(panY') <= MaxPan
  /\ lastX' = x
  /\ lastY' = y
  /\ viewport' = updateViewport(viewport, panX', panY', zoom)
  /\ press' = [press EXCEPT !.far =
       LET d == IF Abs(x - press.x) > Abs(y - press.y)
                  THEN Abs(x - press.x) ELSE Abs(y - press.y)
       IN  IF d > @ THEN d ELSE @]
  /\ rendered' = FALSE
  /\ lastHandler' = "mousemove"
  /\ lastEvent' = Null
  /\ UNCHANGED <<onCanvas, globalKeys, layers, currentLayer, selectedIds,
                 zoom, isDragging, rubberVars, panelVars>>

\* window "mouseup" at (x, y): the listener of app.js, which runs first
MouseUp(x, y, onKey, shiftKey) ==
  /\ Idle
  /\ onKey => SomeGroup
  /\ IF isDragging /\ ~dragMoved /\ ~onKey
       \* clearSelection()
       THEN /\ selectedIds' = {}
            /\ updateSelectionPanel({}, globalKeys, currentLayer)
       ELSE UNCHANGED <<selectedIds, dispatched, panel>>
  /\ isDragging' = FALSE
  /\ dragMoved' = FALSE
  /\ inFlight' = IF rbListener = Null THEN Null
                 ELSE [t |-> "mouseup", x |-> x, y |-> y, shiftKey |-> shiftKey]
  /\ rendered' = FALSE
  /\ lastHandler' = "mouseup"
  /\ lastEvent' = [t |-> "mouseup", onKey |-> onKey]
  /\ UNCHANGED <<onCanvas, globalKeys, layers, currentLayer,
                 zoom, panX, panY, lastX, lastY, press, viewport,
                 isRubberBanding, rubberBand, rbListener, editing>>

\* The box the first listener of setupRubberBand sees for the mouseup that
\* is on its way.
ReleaseBox ==
  Box(rbListener.rbStartSVG, svgPoint(viewport, inFlight.x, inFlight.y))

\* A release that selects the overlapping keys of the key list shown, in
\* the block of the layer that is current.
ReleasedOnCurrent(box) ==
  Overlapping([rbListener EXCEPT !.keys = globalKeys,
                                 !.currentLayer = currentLayer,
                                 !.allLayers = layers,
                                 !.blockHeight = getKeysHeight(globalKeys)],
              box)

\* A release that adds the overlapping keys without looking at Shift.
RubberSelectionKeeping(box, shiftKey) ==
  selectedIds \cup Overlapping(rbListener, box)

\* The selection after a release with a box that is large enough.
RubberSelection(box, shiftKey) ==
  (IF shiftKey THEN selectedIds ELSE {}) \cup Overlapping(rbListener, box)

\* window "mouseup": the listeners of setupRubberBand. The one the first
\* render added runs first and ends the rubber band for all later ones.
MouseUpRubberBand ==
  /\ pc = "idle"
  /\ inFlight # Null
  /\ IF ~isRubberBanding
       THEN UNCHANGED <<isRubberBanding, rubberBand, rbListener, selectedIds,
                        dispatched, panel>>
     ELSE /\ isRubberBanding' = FALSE
          /\ IF ~rubberBand \/ rbListener.rbStartSVG = Null
               THEN UNCHANGED <<rubberBand, rbListener, selectedIds,
                                dispatched, panel>>
             ELSE /\ rubberBand' = FALSE
                  /\ rbListener' = [rbListener EXCEPT !.rbStartSVG = Null]
                  /\ IF TooSmall(ReleaseBox)
                       THEN UNCHANGED <<selectedIds, dispatched, panel>>
                       ELSE /\ selectedIds' =
                                 RubberSelection(ReleaseBox, inFlight.shiftKey)
                            /\ updateSelectionPanel(selectedIds', globalKeys,
                                                    currentLayer)
  /\ inFlight' = Null
  /\ rendered' = FALSE
  /\ lastHandler' = "rubberBand"
  /\ UNCHANGED <<onCanvas, globalKeys, layers, currentLayer, viewVars,
                 editing, lastEvent>>

\* window "keydown" with Escape: clearSelection()
Escape ==
  /\ Idle
  /\ selectedIds' = {}
  /\ updateSelectionPanel({}, globalKeys, currentLayer)
  /\ rendered' = FALSE
  /\ lastHandler' = "escape"
  /\ lastEvent' = Null
  /\ UNCHANGED <<onCanvas, globalKeys, layers, currentLayer, viewVars,
                 rubberVars, editing>>

\* A double click on the key n as drawn in the block of the current layer,
\* no editor being open
DblClick(n) ==
  /\ Idle
  /\ editing = Null
  /\ n \in 1..Len(globalKeys)
  /\ HasGroup(globalKeys[n].id, currentLayer)
  /\ IF Cardinality(selectedIds) > 1
       THEN UNCHANGED <<selectedIds, dispatched, panel, editing>>
       ELSE /\ selectedIds' = {globalKeys[n].id}
            /\ updateSelectionPanel(selectedIds', globalKeys, currentLayer)
            \* enterEditMode()
            /\ editing' = [t |-> "editor", id |-> globalKeys[n].id]
  /\ rendered' = FALSE
  /\ lastHandler' = "dblclick"
  /\ lastEvent' = Null
  /\ UNCHANGED <<onCanvas, globalKeys, layers, currentLayer, viewVars,
                 rubberVars>>

\* The texts a user types.
Texts == {"", "A"}

\* What a user leaves in the two colour pickers and the font-size field.
Fillings == {<<"#ff0000", "#ff0000", "12.5">>, <<"#ff0000", "#ff0000", "0">>}

\* input "blur" of the open editor holding newText: exitEditMode()
ExitEdit(newText) ==
  /\ Idle
  /\ editing # Null
  /\ globalKeys' = [n \in 1..Len(globalKeys) |->
       IF globalKeys[n].id = editing.id
         THEN [globalKeys[n] EXCEPT !.layers[currentLayer].text = newText]
         ELSE globalKeys[n]]
  /\ panel' = IF Cardinality(selectedIds) = 1
                THEN [panel EXCEPT !.keyText = newText] ELSE panel
  /\ editing' = Null
  /\ rendered' = FALSE
  /\ lastHandler' = "exitEdit"
  /\ lastEvent' = Null
  /\ UNCHANGED <<onCanvas, layers, currentLayer, selectedIds, viewVars,
                 rubberVars, dispatched>>

\* keyText "input": the user made the field hold text
TypeText(text) ==
  /\ Idle
  /\ panel' = [panel EXCEPT !.keyText = text]
  /\ IF Cardinality(selectedIds) # 1
       THEN UNCHANGED globalKeys
       ELSE globalKeys' = [n \in 1..Len(globalKeys) |->
              IF globalKeys[n].id \in selectedIds
                   /\ currentLayer \in DOMAIN globalKeys[n].layers
                THEN [globalKeys[n] EXCEPT !.layers[currentLayer].text = text]
                ELSE globalKeys[n]]
  /\ rendered' = FALSE
  /\ lastHandler' = "typeText"
  /\ lastEvent' = Null
  /\ UNCHANGED <<onCanvas, layers, currentLayer, selectedIds, viewVars,
                 rubberVars, editing, dispatched>>

\* The user sets the two colour pickers and the font-size field (no
\* listener of the program runs).
FillPanel(bg, color, size) ==
  /\ Idle
  /\ panel' = [panel EXCEPT !.keyColor = bg, !.keyTextColor = color,
                            !.fontSize = size]
  /\ rendered' = FALSE
  /\ lastHandler' = "fillPanel"
  /\ lastEvent' = Null
  /\ UNCHANGED <<onCanvas, globalKeys, layers, currentLayer, selectedIds,
                 viewVars, rubberVars, editing, dispatched>>

\* parseInt(fontSize.value, 10) || null
NewSize(text) ==
  LET n == parseInt(text)
  IN  IF n.t = "NaN" \/ n = Num(0) THEN Null ELSE n

\* An Apply that sets the label of every selected key.
AppliedToLabelToo(layer, fields, single) ==
  [text     |-> fields.keyText,
   bg       |-> fields.keyColor,
   color    |-> fields.keyTextColor,
   fontSize |-> IF NewSize(fields.fontSize) # Null
                  THEN NewSize(fields.fontSize).v \div 2
                  ELSE layer.fontSize]

\* The style Apply leaves a selected key on the current layer, single
\* telling whether it is the only selected key.
Applied(layer, fields, single) ==
  [text     |-> IF single THEN fields.keyText ELSE layer.text,
   bg       |-> fields.keyColor,
   color    |-> fields.keyTextColor,
   fontSize |-> IF NewSize(fields.fontSize) # Null
                  THEN NewSize(fields.fontSize).v \div 2
                  ELSE layer.fontSize]

\* An Apply that writes the panel values to every layer of a selected key.
ApplyToKeyOnAllLayers(key, fields, single) ==
  [key EXCEPT !.layers = [name \in DOMAIN key.layers |->
                            Applied(key.layers[name], fields, single)]]

\* The key Apply leaves of a selected key.
ApplyToKey(key, fields, single) ==
  [key EXCEPT !.layers[currentLayer] = Applied(@, fields, single)]

\* applyChanges "click"
Apply ==
  /\ Idle
  /\ LET sel     == {n \in 1..Len(globalKeys) : globalKeys[n].id \in selectedIds}
         missing == {n \in sel : currentLayer \notin DOMAIN globalKeys[n].layers}
         single  == Cardinality(selectedIds) = 1
     IN  IF selectedIds = {} THEN UNCHANGED globalKeys
         ELSE \E done \in SUBSET (sel \ missing) :
                \* forEach follows the order of selection, which is not
                \* kept here: layer.bg = newBg throws on the first selected
                \* key without a style on the current layer, any of the
                \* others having been dealt with before
                /\ missing = {} => done = sel
                /\ globalKeys' = [n \in 1..Len(globalKeys) |->
                     IF n \in done
                       THEN ApplyToKey(globalKeys[n], panel, single)
                       ELSE globalKeys[n]]
  /\ rendered' = FALSE
  /\ lastHandler' = "apply"
  /\ lastEvent' = Null
  /\ UNCHANGED <<onCanvas, layers, currentLayer, selectedIds, viewVars,
                 rubberVars, panelVars>>

AppNext ==
  \/ \E f \in Files : ChooseFile(f)
  \/ \E k \in 1..Len(pending) : Decode(k)
  \/ Filter \/ LoopStep \/ Assemble \/ Normalize
  \/ ImportDone \/ ImportRejected
  \/ \E newName \in Answers : AddLayer(newName)
  \/ \E name \in Names(layers) : SwitchLayer(name)
  \/ \E n \in 1..Len(globalKeys) : Click(n, FALSE)
  \/ Save \/ Load

AppSpec == AppInit /\ [][AppNext]_vars

----------------------------------------------------------------------------
(* The view: wheel, reset view and drags on a canvas that Add Layer and the
   layer select render, with no key on it *)

ViewPoints == {<<0, 0>>, <<4, 4>>}

ViewNext ==
  \/ \E up \in BOOLEAN : Wheel(up)
  \/ ResetView
  \/ \E p \in ViewPoints : MouseDown(p[1], p[2], FALSE)
  \/ \E p \in ViewPoints : MouseMove(p[1], p[2])
  \/ \E p \in ViewPoints : MouseUp(p[1], p[2], FALSE, FALSE)
  \/ MouseUpRubberBand
  \/ \E newName \in Answers : AddLayer(newName)
  \/ \E name \in Names(layers) : SwitchLayer(name)

ViewSpec == AppInit /\ [][ViewNext]_vars

----------------------------------------------------------------------------
(* The canvas with keys on it: one import of the two-key drawing, layers,
   clicks, and presses, moves and releases of the mouse just left of the
   first key *)

CanvasPoints == {<<4, 40>>, <<6, 40>>, <<8, 40>>}

CanvasNext ==
  \/ imports = <<>> /\ pending = <<>> /\ ChooseFile(DxfFile(TwoKeys))
  \/ \E k \in 1..Len(pending) : Decode(k)
  \/ Filter \/ LoopStep \/ Assemble \/ Normalize
  \/ ImportDone
  \/ \E newName \in Answers : AddLayer(newName)
  \/ \E name \in Names(layers) : SwitchLayer(name)
  \/ \E n \in 1..Len(globalKeys) : Click(n, FALSE)
  \* the button is pressed when it is up
  \/ \E p \in CanvasPoints, onKey \in BOOLEAN :
       ~isDragging /\ MouseDown(p[1], p[2], onKey)
  \/ \E p \in CanvasPoints : MouseMove(p[1], p[2])
  \* the button is released where the mouse was last seen
  \/ \E onKey \in BOOLEAN, shiftKey \in BOOLEAN :
       MouseUp(lastX, lastY, onKey, shiftKey)
  \/ MouseUpRubberBand

CanvasSpec == AppInit /\ [][CanvasNext]_vars

----------------------------------------------------------------------------
(* Selecting keys: one import of the two-key drawing, a second layer,
   clicks with and without Shift, the inline editor and Escape *)

ClickNext ==
  \/ imports = <<>> /\ pending = <<>> /\ ChooseFile(DxfFile(TwoKeys))
  \/ \E k \in 1..Len(pending) : Decode(k)
  \/ Filter \/ LoopStep \/ Assemble \/ Normalize
  \/ ImportDone
  \/ \E newName \in Answers : AddLayer(newName)
  \/ \E name \in Names(layers) : SwitchLayer(name)
  \/ \E n \in 1..Len(globalKeys), shiftKey \in BOOLEAN : Click(n, shiftKey)
  \/ \E n \in 1..Len(globalKeys) : DblClick(n)
  \/ \E newText \in Texts : ExitEdit(newText)
  \/ Escape

ClickSpec == AppInit /\ [][ClickNext]_vars

----------------------------------------------------------------------------
(* Layers: imports of the one-key drawing, Add Layer with two new names and
   the layer select *)

LayerAnswers == Answers \cup {"sym"}

LayerNext ==
  \/ ChooseFile(DxfFile(OneKey))
  \/ \E k \in 1..Len(pending) : Decode(k)
  \/ Filter \/ LoopStep \/ Assemble \/ Normalize
  \/ ImportDone
  \/ \E newName \in LayerAnswers : AddLayer(newName)
  \/ \E name \in Names(layers) : SwitchLayer(name)

LayerSpec == AppInit /\ [][LayerNext]_vars

----------------------------------------------------------------------------------------------------------------------------------------------
(* The panel: one import of the two-key drawing, clicks with and without
   Shift, typing a label, filling the fields, Apply *)

PanelNext ==
  \/ imports = <<>> /\ pending = <<>> /\ ChooseFile(DxfFile(TwoKeys))
  \/ \E k \in 1..Len(pending) : Decode(k)
  \/ Filter \/ LoopStep \/ Assemble \/ Normalize
  \/ ImportDone
  \/ \E n \in 1..Len(globalKeys), shiftKey \in BOOLEAN : Click(n, shiftKey)
  \/ \E text \in Texts : TypeText(text)
  \/ \E f \in Fillings : FillPanel(f[1], f[2], f[3])
  \/ Apply

PanelSpec == AppInit /\ [][PanelNext]_vars

----------------------------------------------------------------------------
(* The panel on two layers: the same without typing, with Add Layer and the
   layer select *)

LayerPanelNext ==
  \/ imports = <<>> /\ pending = <<>> /\ ChooseFile(DxfFile(TwoKeys))
  \/ \E k \in 1..Len(pending) : Decode(k)
  \/ Filter \/ LoopStep \/ Assemble \/ Normalize
  \/ ImportDone
  \/ AddLayer("fn")
  \/ \E name \in Names(layers) : SwitchLayer(name)
  \/ \E n \in 1..Len(globalKeys), shiftKey \in BOOLEAN : Click(n, shiftKey)
  \/ \E f \in Fillings : FillPanel(f[1], f[2], f[3])
  \/ Apply

LayerPanelSpec == AppInit /\ [][LayerPanelNext]_vars

----------------------------------------------------------------------------
(* Loading: one import of the one-key drawing, clicks, Add Layer, the layer
   select, Save, and loads of the downloaded file and of other files *)

LoadNext ==
  \/ imports = <<>> /\ pending = <<>> /\ ChooseFile(DxfFile(OneKey))
  \/ \E k \in 1..Len(pending) : Decode(k)
  \/ Filter \/ LoopStep \/ Assemble \/ Normalize
  \/ ImportDone
  \/ AddLayer("fn")
  \/ \E name \in Names(layers) : SwitchLayer(name)
  \/ \E n \in 1..Len(globalKeys) : Click(n, FALSE)
  \/ Save
  \/ Load
  \/ \E f \in Layouts : LoadFile(f)

LoadSpec == AppInit /\ [][LoadNext]_vars

----------------------------------------------------------------------------
(* Two reads at a time: the one-key drawing is chosen first and the two-key
   drawing second, their texts arrive in either order, and a layout file is
   loaded at any moment *)

MaxRacing == 2

RaceNext ==
  \/ /\ imports = <<>> /\ pending = <<>>
     /\ ChooseFileWithin(DxfFile(OneKey), MaxRacing)
  \/ /\ Len(imports) + Len(pending) = 1
     /\ ChooseFileWithin(DxfFile(TwoKeys), MaxRacing)
  \/ \E k \in 1..Len(pending) : Decode(k)
  \/ Filter \/ LoopStep \/ Assemble \/ Normalize
  \/ ImportDone
  \/ LoadFile(Document([keys |-> Array(<<FileKey>>), layers |-> Undefined]))

RaceSpec == AppInit /\ [][RaceNext]_vars

----------------------------------------------------------------------------
(* What the properties below read off a state *)

\* The first group of the drawing, and whether the loop has dealt with it.
FirstGroup == SubSeq(lines, 1, GROUP)
FirstGroupBuilt == Len(lines) >= GROUP /\ pc = "loop" /\ i = GROUP
FirstGroupThrew == Len(lines) >= GROUP /\ pc = "error" /\ i = 0

\* What buildRectangle left for the first group.
Outcome ==
  IF pc = "error" THEN TypeError
  ELSE IF rectangles = <<>> THEN Null ELSE rectangles[1]

\* The endpoints a line exposes, read off the entity: start and end, or
\* else the first two vertices; none when it exposes neither.
Ends(line) ==
  IF line.start.t = "object" /\ line.end.t = "object"
    THEN {line.start, line.end}
  ELSE IF line.vertices.t = "array" /\ Len(line.vertices.items) >= 2
    THEN {line.vertices.items[1], line.vertices.items[2]}
  ELSE {}

Resolvable(line) == Ends(line) # {}

\* All endpoints of a group.
GroupEnds(g) == UNION {Ends(g[k]) : k \in 1..Len(g)}

\* Every collected endpoint is a point with two numbers.
NumericPoint(p) == p.t = "object" /\ p.x.t = "number" /\ p.y.t = "number"
AllNumeric(g) == \A p \in GroupEnds(g) : NumericPoint(p)

\* Extent of a set of integers.
SetMax(S) == CHOOSE m \in S : \A n \in S : n <= m
SetMin(S) == CHOOSE m \in S : \A n \in S : m <= n
Extent(S) == SetMax(S) - SetMin(S)

\* Width and height, in halves, of the bounding box of the endpoints of g.
WidthOf(g)  == Extent({p.x.v : p \in GroupEnds(g)})
HeightOf(g) == Extent({p.y.v : p \in GroupEnds(g)})

\* At least two lines of the group expose endpoints (four collected points).
FourPoints(g) == Cardinality({k \in 1..Len(g) : Resolvable(g[k])}) >= 2

----------------------------------------------------------------------------
(* C1: a group whose collected points (at least four) are all numbers is     *)
(* accepted exactly when 10 <= width <= 40 and 10 <= height <= 40, the       *)
(* limits 10 and 40 included.                                                *)
C1_AcceptanceBand ==
  (FirstGroupBuilt /\ FourPoints(FirstGroup) /\ AllNumeric(FirstGroup)) =>
    LET w == WidthOf(FirstGroup)
        h == HeightOf(FirstGroup)
    IN  /\ (Len(rectangles) = 1) <=>
             (2 * 10 <= w /\ w <= 2 * 40 /\ 2 * 10 <= h /\ h <= 2 * 40)
        /\ Len(rectangles) = 1 =>
             rectangles[1].width = Halves(w) /\ rectangles[1].height = Halves(h)

\* An outline exactly 40 wide and 10 high has been accepted.
C1_Witness ==
  /\ FirstGroupBuilt /\ FourPoints(FirstGroup) /\ AllNumeric(FirstGroup)
  /\ WidthOf(FirstGroup) = 2 * 40 /\ HeightOf(FirstGroup) = 2 * 10
  /\ Len(rectangles) = 1

----------------------------------------------------------------------------
\* The rectangles of the first n groups of four consecutive lines, in order.
RECURSIVE AcceptedOf(_)
AcceptedOf(n) ==
  IF n = 0 THEN <<>>
  ELSE LET j == n - 1
           r == buildRectangle(<<lines[4 * j + 1], lines[4 * j + 2],
                                 lines[4 * j + 3], lines[4 * j + 4]>>)
       IN  IF r.t = "object" THEN Append(AcceptedOf(j), r) ELSE AcceptedOf(j)

(* C2: of N lines exactly floor(N/4) groups are considered, group j being    *)
(* lines 4j..4j+3 in the original order; the 1 to 3 trailing lines produce   *)
(* no rectangle and no key.                                                  *)
C2_GroupsOfFour ==
  LET N    == Len(lines)
      full == N \div 4
      seen == i \div 4
  IN  /\ pc = "loop" =>
           /\ i = 4 * seen
           /\ rectangles = AcceptedOf(IF seen <= full THEN seen ELSE full)
      /\ pc = "done" =>
           /\ i >= N
           /\ rectangles = AcceptedOf(full)
           /\ Len(result) = Len(rectangles)
           /\ Len(result) <= full

\* Two complete groups were accepted and 1 to 3 lines were left over.
C2_Witness ==
  /\ pc = "done"
  /\ Len(lines) > 2 * GROUP /\ Len(lines) < 3 * GROUP
  /\ Len(rectangles) = 2 /\ Len(result) = 2

----------------------------------------------------------------------------
\* A collected endpoint of g has a coordinate that is no number (undefined,
\* null, NaN), or is no point at all.
HasBadCoordinate(g) == \E p \in GroupEnds(g) : ~NumericPoint(p)

(* C3: a group with a collected endpoint whose x or y is missing or is no    *)
(* defined number (undefined, null, NaN) is rejected entirely and yields no  *)
(* key.                                                                      *)
C3_BadCoordinateRejected ==
  /\ (FirstGroupBuilt /\ HasBadCoordinate(FirstGroup)) => rectangles = <<>>
  /\ (pc = "done" /\ Len(lines) = GROUP /\ HasBadCoordinate(FirstGroup)) =>
        result = <<>>

\* The part of C3 the code keeps: an undefined coordinate rejects the group.
UndefinedCoordinateRejected ==
  (FirstGroupBuilt
     /\ \E p \in GroupEnds(FirstGroup) :
          p.t = "object" /\ (p.x = Undefined \/ p.y = Undefined))
    => rectangles = <<>>

----------------------------------------------------------------------------
\* The line with its two endpoints exchanged.
Flip(line) ==
  IF line.vertices.t = "array" /\ Len(line.vertices.items) >= 2
    THEN [line EXCEPT !.start = line.end, !.end = line.start,
                      !.vertices.items[1] = line.vertices.items[2],
                      !.vertices.items[2] = line.vertices.items[1]]
    ELSE [line EXCEPT !.start = line.end, !.end = line.start]

\* g with line k flipped, g with lines k and k + 1 exchanged.
FlipAt(g, k) == [g EXCEPT ![k] = Flip(g[k])]
SwapAt(g, k) == [g EXCEPT ![k] = g[k + 1], ![k + 1] = g[k]]

\* The groups one exchange away from g.  Every permutation of the lines and
\* of the endpoints within lines is a chain of such exchanges.
Exchanges(g) ==
  {FlipAt(g, k) : k \in 1..GROUP} \cup {SwapAt(g, k) : k \in 1..(GROUP - 1)}

(* C4: buildRectangle depends only on the endpoints of its group: exchanging *)
(* the two endpoints of a line or two lines of the group gives the same      *)
(* outcome (the same rejection, or the same centre, width and height).  The  *)
(* single groups are closed under these exchanges, so the outcome is the     *)
(* same for every permutation.                                               *)
C4_OrderIndependent ==
  /\ (FirstGroupBuilt \/ FirstGroupThrew) =>
        \A g \in Exchanges(FirstGroup) : buildRectangle(g) = Outcome
  /\ (pc = "filter" /\ entities \in SingleGroups) =>
        \A g \in Exchanges(entities) : g \in SingleGroups

\* A group of different lines has been accepted, and an exchange changes it.
C4_Witness ==
  /\ FirstGroupBuilt /\ Len(rectangles) = 1
  /\ FirstGroup[1] # FirstGroup[2]
  /\ Flip(FirstGroup[1]) # FirstGroup[1]
  /\ Cardinality(GroupEnds(FirstGroup)) >= 3

----------------------------------------------------------------------------
\* The line { vertices: [start, end, ...more] } for a line { start, end }.
AsVertices(line, more) == VX(<<line.start, line.end>> \o more)

\* What may follow the first two vertices.
MoreVertices == {<<>>, <<PD>>, <<PA, Null>>}

(* C5: a line given as { start, end } and the same line given as             *)
(* { vertices: [start, end, ...] } give the same getLinePoints, and the same *)
(* buildRectangle for the group holding it.                                  *)
C5_RepresentationEquivalent ==
  (FirstGroupBuilt \/ FirstGroupThrew) =>
    \A k \in 1..GROUP : \A more \in MoreVertices :
      LET line == FirstGroup[k]
      IN  (line.start.t = "object" /\ line.end.t = "object") =>
            /\ getLinePoints(AsVertices(line, more)) = getLinePoints(line)
            /\ buildRectangle([FirstGroup EXCEPT ![k] = AsVertices(line, more)])
                 = Outcome

\* An accepted group holds a { start, end } line whose endpoints differ.
C5_Witness ==
  /\ FirstGroupBuilt /\ Len(rectangles) = 1
  /\ \E k \in 1..GROUP :
       /\ FirstGroup[k].start.t = "object" /\ FirstGroup[k].end.t = "object"
       /\ FirstGroup[k].start # FirstGroup[k].end

----------------------------------------------------------------------------
(* normalizeKeys: keys is its argument and result its value once pc = "done" *)

Normalized == pc = "done" /\ Len(keys) > 0

\* Every key of the batch has numbers for x and y.
NumericBatch == \A n \in 1..Len(keys) : IsNum(keys[n].x) /\ IsNum(keys[n].y)

\* The anchor of the batch: x is 50 for a key of smallest input x, y is 50
\* for a key of largest input y, and no key lies left of or above 50.
Anchored ==
  /\ \A n \in 1..Len(result) :
       /\ IsNum(result[n].x) /\ result[n].x.v >= 2 * 50
       /\ IsNum(result[n].y) /\ result[n].y.v >= 2 * 50
  /\ \E n \in 1..Len(result) :
       /\ result[n].x = Num(50)
       /\ \A m \in 1..Len(keys) : IsNum(keys[m].x) /\ keys[n].x.v <= keys[m].x.v
  /\ \E n \in 1..Len(result) :
       /\ result[n].y = Num(50)
       /\ \A m \in 1..Len(keys) : IsNum(keys[m].y) /\ keys[m].y.v <= keys[n].y.v

(* C6: for every non-empty batch, after normalizeKeys the least x of the     *)
(* output is exactly 50, at the key of smallest input x, the least y is      *)
(* exactly 50, at the key of largest input y, and no output key has x < 50   *)
(* or y < 50.                                                                *)
C6_NormalizationAnchor == Normalized => Anchored

\* The anchor on the batches whose coordinates are all numbers.
AnchoredOnNumericBatches == (Normalized /\ NumericBatch) => Anchored

----------------------------------------------------------------------------
\* (k - lo) * 4 + 50 in halves, for coordinates given in halves.
Shifted(k, lo) == (k - lo) * 4 + 2 * 50

\* The x and y the formulas of C7 give for key n: not a number as soon as a
\* coordinate of the batch it reads is not a number.
ExpectedX(n) ==
  IF \E m \in 1..Len(keys) : ~IsNum(keys[m].x) THEN NaN
  ELSE Halves(Shifted(keys[n].x.v, SetMin({keys[m].x.v : m \in 1..Len(keys)})))

ExpectedY(n) ==
  IF \E m \in 1..Len(keys) : ~IsNum(keys[m].y) THEN NaN
  ELSE Halves(Shifted(SetMax({keys[m].y.v : m \in 1..Len(keys)}), keys[n].y.v))

(* C7: for every key k of a non-empty batch normalizeKeys gives              *)
(* x' = (k.x - minX) * 4 + 50 and y' = (maxY - k.y) * 4 + 50, minX and maxY  *)
(* taken over the whole batch; a key with larger input y gets a smaller y'.  *)
C7_NormalizationFormula ==
  Normalized =>
    /\ \A n \in 1..Len(keys) :
         result[n].x = ExpectedX(n) /\ result[n].y = ExpectedY(n)
    /\ NumericBatch =>
         \A n, m \in 1..Len(keys) :
           keys[n].y.v > keys[m].y.v => result[n].y.v < result[m].y.v

\* Two keys that differ in x and in y have been normalized.
C7_Witness ==
  /\ Normalized /\ NumericBatch /\ Len(keys) = 2
  /\ keys[1].x.v > keys[2].x.v /\ keys[1].y.v < keys[2].y.v
  /\ result[1].x.v > 2 * 50 /\ result[1].y.v > 2 * 50

----------------------------------------------------------------------------
(* C8: normalizeKeys multiplies every width and height by exactly 4, and     *)
(* every imported key has rendering width and height in [40, 160].           *)
C8_ScaledSizes ==
  pc = "done" =>
    \A n \in 1..Len(result) :
      /\ result[n].width = Times(keys[n].width, 4)
      /\ result[n].height = Times(keys[n].height, 4)
      /\ IsNum(result[n].width)
      /\ 2 * 40 <= result[n].width.v /\ result[n].width.v <= 2 * 160
      /\ IsNum(result[n].height)
      /\ 2 * 40 <= result[n].height.v /\ result[n].height.v <= 2 * 160

\* The sizes of the keys whose rectangle has numbers for width and height.
ScaledSizesOfNumericKeys ==
  pc = "done" =>
    \A n \in 1..Len(result) :
      (IsNum(keys[n].width) /\ IsNum(keys[n].height)) =>
        /\ result[n].width = Halves(4 * keys[n].width.v)
        /\ result[n].height = Halves(4 * keys[n].height.v)
        /\ 2 * 40 <= result[n].width.v /\ result[n].width.v <= 2 * 160
        /\ 2 * 40 <= result[n].height.v /\ result[n].height.v <= 2 * 160

----------------------------------------------------------------------------
(* C9: normalizeKeys returns as many keys as it was given, in the same       *)
(* order; output key i has the id, rotation and layers of input key i, and   *)
(* no field other than x, y, width and height differs.                       *)
C9_NormalizationFrame ==
  pc = "done" =>
    /\ Len(result) = Len(keys)
    /\ \A n \in 1..Len(keys) :
         /\ DOMAIN result[n] = DOMAIN keys[n]
         /\ \A f \in DOMAIN keys[n] \ {"x", "y", "width", "height"} :
              result[n][f] = keys[n][f]

\* Two keys with different ids have been normalized, and their positions
\* have changed.
C9_Witness ==
  /\ Normalized /\ Len(keys) = 2
  /\ keys[1].id # keys[2].id
  /\ result[1].x # keys[1].x /\ result[2].width # keys[2].width

----------------------------------------------------------------------------
(* C10: every key parseDXFFile returns has rotation 0 and exactly one layer, *)
(* "base", with text "", bg "#ffffff", fontSize 18 and no color field.       *)
C10_DefaultKey ==
  pc = "done" =>
    \A n \in 1..Len(result) :
      /\ result[n].rotation = 0
      /\ DOMAIN result[n].layers = {"base"}
      /\ DOMAIN result[n].layers.base = {"text", "bg", "fontSize"}
      /\ result[n].layers.base.text = ""
      /\ result[n].layers.base.bg = "#ffffff"
      /\ result[n].layers.base.fontSize = 18

\* parseDXFFile has returned two keys.
C10_Witness == pc = "done" /\ Len(result) = 2

----------------------------------------------------------------------------
(* C12: the keys parseDXFFile returns correspond one to one, in order, to    *)
(* the accepted groups: the n-th key is built from the rectangle of the      *)
(* n-th accepted group, and there are at most floor(N/4) keys for N lines.   *)
C12_KeysFollowAcceptedGroups ==
  pc = "done" =>
    LET acc == AcceptedOf(Len(lines) \div 4)
    IN  /\ Len(result) = Len(acc)
        /\ 4 * Len(result) <= Len(lines)
        /\ \A n \in 1..Len(acc) :
             /\ keys[n].x = acc[n].cx /\ keys[n].y = acc[n].cy
             /\ result[n].id = keys[n].id
             /\ result[n].width = Times(acc[n].width, 4)
             /\ result[n].height = Times(acc[n].height, 4)

\* Two groups of different sizes were accepted and returned.
C12_Witness ==
  /\ pc = "done" /\ Len(result) = 2
  /\ result[1].width # result[2].width

----------------------------------------------------------------------------
(* C13: no sequence of line entities makes getLinePoints or buildRectangle   *)
(* raise an error; a line that cannot be resolved is only ever skipped.      *)
C13_NoFatalPath == pc # "error"

----------------------------------------------------------------------------
\* The lines of a group that expose endpoints, in order.
ResolvableLines(g) == SelectSeq(g, Resolvable)

----------------------------------------------------------------------------
\* The number a coordinate counts as in Math.min and Math.max, in halves
\* (null counts as 0).
Counted(c) == IF c.t = "number" THEN c.v ELSE 0

\* Extent and middle of a set of coordinates; NaN as soon as one is NaN.
SpanOf(S) ==
  IF \E c \in S : c = NaN THEN NaN
  ELSE Halves(Extent({Counted(c) : c \in S}))
MidOf(S) ==
  IF \E c \in S : c = NaN THEN NaN
  ELSE Halves((SetMin({Counted(c) : c \in S}) + SetMax({Counted(c) : c \in S})) \div 2)

(* C15: the rectangle of an accepted group is the axis-aligned bounding box  *)
(* of all its collected endpoints: width = maxX - minX, height = maxY -      *)
(* minY, centre ((minX + maxX)/2, (minY + maxY)/2).                          *)
C15_BoundingBox ==
  (FirstGroupBuilt /\ Len(rectangles) = 1) =>
    LET X == {p.x : p \in GroupEnds(FirstGroup)}
        Y == {p.y : p \in GroupEnds(FirstGroup)}
    IN  /\ rectangles[1].width = SpanOf(X)
        /\ rectangles[1].height = SpanOf(Y)
        /\ rectangles[1].cx = MidOf(X)
        /\ rectangles[1].cy = MidOf(Y)

\* An accepted numeric group whose centre is not on the integer grid.
C15_Witness ==
  /\ FirstGroupBuilt /\ Len(rectangles) = 1 /\ AllNumeric(FirstGroup)
  /\ rectangles[1].cy.v % 2 = 1

----------------------------------------------------------------------------
(* C16: parseDXFFile never calls normalizeKeys on an empty key sequence.     *)
C16_NormalizeNeverOnEmpty == pc = "normalize" => keys # <<>>

----------------------------------------------------------------------------
(* C17: normalizeKeys called on an empty key sequence is rejected as a       *)
(* precondition failure; it does not return a value.                         *)
C17_EmptyInputRejected ==
  [][(pc = "normalize" /\ keys = <<>>) => pc' = "error"]_vars

----------------------------------------------------------------------------
\* The keys a completed parseDXFFile call returned (none when it threw).
Returned(a) ==
  IF imports[a].outcome.t = "array" THEN imports[a].outcome.items ELSE <<>>

(* C11: over all imports, the same drawing imported twice included, the ids  *)
(* of the keys produced are pairwise distinct, within one key set and        *)
(* between key sets.                                                         *)
C11_IdsNeverReused ==
  \A a, b \in 1..Len(imports) :
    \A n \in 1..Len(Returned(a)), m \in 1..Len(Returned(b)) :
      Returned(a)[n].id = Returned(b)[m].id => (a = b /\ n = m)

\* The same drawing has been imported twice, two keys each time.
C11_Witness ==
  /\ Len(imports) = 2
  /\ imports[1].file = imports[2].file
  /\ Len(Returned(1)) = 2 /\ Len(Returned(2)) = 2

----------------------------------------------------------------------------
\* Two keys agree on everything but the id.
SameButId(k1, k2) ==
  /\ k1.x = k2.x /\ k1.y = k2.y
  /\ k1.width = k2.width /\ k1.height = k2.height
  /\ k1.rotation = k2.rotation
  /\ k1.layers = k2.layers

(* C18: two runs of the pipeline on the same sequence of line entities       *)
(* return key sequences of the same length that agree, position by           *)
(* position, on x, y, width, height, rotation and layers.                    *)
C18_Deterministic ==
  \A a, b \in 1..Len(imports) :
    ( /\ imports[a].outcome.t = "array"
      /\ imports[b].outcome.t = "array"
      /\ imports[a].file.entities = imports[b].file.entities ) =>
        /\ Len(Returned(a)) = Len(Returned(b))
        /\ \A n \in 1..Len(Returned(a)) : SameButId(Returned(a)[n], Returned(b)[n])

\* A drawing was imported again after a layer had been added, and the second
\* import has just completed.
C18_Witness ==
  /\ lastHandler = "import"
  /\ Len(imports) = 2
  /\ imports[1].file.entities = imports[2].file.entities
  /\ Len(Returned(1)) > 0 /\ imports[2].outcome.t = "array"
  /\ Len(layers) = 2

----------------------------------------------------------------------------
(* C19: Load of the file Save produced restores the key list that was        *)
(* saved (id, x, y, width, height, rotation and layers of every key, same    *)
(* order and count) and the layers list that was saved.                      *)
C19_SaveLoadLossless ==
  lastHandler = "load" =>
    /\ globalKeys = savedState.keys
    /\ layers = savedState.layers

\* The round trip is lossless when every saved coordinate and size is a number.
SaveLoadLosslessForNumbers ==
  ( /\ lastHandler = "load"
    /\ \A n \in 1..Len(savedState.keys) :
         /\ IsNum(savedState.keys[n].x) /\ IsNum(savedState.keys[n].y)
         /\ IsNum(savedState.keys[n].width) /\ IsNum(savedState.keys[n].height) ) =>
    /\ globalKeys = savedState.keys
    /\ layers = savedState.layers

----------------------------------------------------------------------------
(* C20: when the decoder throws on a chosen .dxf file the import aborts:     *)
(* from the choice of the file to the rejection, no step of the import       *)
(* changes keys, layers, currentLayer or the selection, and renderKeyboard   *)
(* is not called.                                                            *)
C20_FailedImportChangesNothing ==
  [][ ( \/ (Len(pending') > Len(pending) /\ ~pending'[Len(pending')].decodes)
        \/ pc' = "throw"
        \/ pc = "throw" ) =>
      ( /\ UNCHANGED <<globalKeys, layers, currentLayer, selectedIds>>
        /\ ~rendered' ) ]_vars

\* The decoder has just thrown while a layout with a selected key was shown.
C20_Witness ==
  /\ lastHandler = "reject"
  /\ imports[Len(imports)].outcome = DecodeError
  /\ globalKeys # <<>>
  /\ selectedIds # {}

----------------------------------------------------------------------------
(* C28: in every reachable state zoom lies between its limits 0.2 and 5,    *)
(* whatever wheel ticks, renders, Reset View and drags led there.            *)
C28_ZoomInRange == ZOOMMIN <= zoom /\ zoom <= ZOOMMAX

\* A wheel tick has left zoom at its lower limit on a rendered canvas that
\* has been panned.
C28_Witness ==
  /\ lastHandler = "wheel"
  /\ zoom = ZOOMMIN
  /\ viewport # Null
  /\ panX # 0

----------------------------------------------------------------------------
(* C29: renderKeyboard preserves the view: a render leaves panX, panY and   *)
(* zoom as they were, and a re-render gives the new viewport the transform   *)
(* the old one had.                                                          *)
C29_RenderPreservesView ==
  [][ rendered' =>
      ( /\ panX' = panX /\ panY' = panY /\ zoom' = zoom
        /\ (viewport # Null => viewport'.transform = viewport.transform) ) ]_vars

\* A re-render of a canvas that had been panned and zoomed.
C29_Witness ==
  /\ rendered
  /\ viewport # Null
  /\ viewport.transform # Null
  /\ panX # 0
  /\ zoom # ZOOMONE

----------------------------------------------------------------------------
(* C30: a press on the canvas followed by a release outside every key group *)
(* with no mouse movement in between empties the selection; a press-release  *)
(* sequence during which the mouse moved more than 2 px from where it was    *)
(* pressed does not clear the selection through the mouseup listener of      *)
(* app.js; after every mouseup isDragging and dragMoved are both false.      *)
MouseUpStep ==
  pc = "idle" /\ pc' = "idle" /\ inFlight = Null /\ lastHandler' = "mouseup"

C30_ClickClearsDragKeeps ==
  [][ MouseUpStep =>
      ( /\ (isDragging /\ press.far = 0 /\ ~lastEvent'.onKey) => selectedIds' = {}
        /\ (isDragging /\ press.far > SLOP) => selectedIds' = selectedIds
        /\ ~isDragging' /\ ~dragMoved' ) ]_vars

\* What the listener does keep: the selection survives a release when some
\* single mousemove event of the press moved the mouse by more than 2 px.
DragMovedKeeps ==
  [][ (MouseUpStep /\ isDragging /\ dragMoved) => selectedIds' = selectedIds ]_vars

----------------------------------------------------------------------------
(* C21: after any sequence of renders, a rubber-band release with a box of  *)
(* at least 4 units selects exactly the keys of the key list now shown that  *)
(* overlap the box in the block of the layer that is current at the release  *)
(* (added to the previous selection when Shift is held): never through the   *)
(* block of another layer, never from the key list of an earlier render.     *)
RubberRelease ==
  pc = "idle" /\ inFlight # Null /\ isRubberBanding /\ rubberBand

C21_ReleaseSelectsShownKeys ==
  [][ (RubberRelease /\ ~TooSmall(ReleaseBox)) =>
      selectedIds' = (IF inFlight.shiftKey THEN selectedIds ELSE {})
                       \cup ReleasedOnCurrent(ReleaseBox) ]_vars

\* The same holds as long as the layer, the layer list and the key list are
\* those of the first render.
ReleaseSelectsKeysOfFirstRender ==
  [][ ( /\ RubberRelease /\ ~TooSmall(ReleaseBox)
        /\ rbListener.currentLayer = currentLayer
        /\ rbListener.allLayers = layers
        /\ rbListener.keys = globalKeys ) =>
      selectedIds' = (IF inFlight.shiftKey THEN selectedIds ELSE {})
                       \cup ReleasedOnCurrent(ReleaseBox) ]_vars

----------------------------------------------------------------------------
----------------------------------------------------------------------------
(* C22: every call of renderKeyboard empties the selection: right after a   *)
(* DXF import, a JSON load, a layer switch or an added layer, selectedIds is *)
(* empty and the last selectionChanged event carried an empty id list.       *)
C22_RenderEmptiesSelection ==
  rendered =>
    /\ selectedIds = {}
    /\ dispatched = [t |-> "selectionChanged", ids |-> {}]
    /\ lastHandler \in {"import", "load", "switchLayer", "addLayer"}

\* A layer switch has just redrawn a layout of two keys.
C22_Witness ==
  /\ rendered
  /\ lastHandler = "switchLayer"
  /\ Len(globalKeys) = 2
  /\ selectedIds = {}

----------------------------------------------------------------------------
(* C23: on a key of the active layer whose inline editor is closed, a plain *)
(* click leaves exactly that key selected whatever was selected before, and  *)
(* a Shift+click toggles that key in the selection and leaves every other    *)
(* id as it was.                                                             *)
ClickStep == pc = "idle" /\ pc' = "idle" /\ lastHandler' = "click"

EditorClosed(id) == ~(editing # Null /\ editing.id = id)

C23_ClickSelects ==
  [][ (ClickStep /\ EditorClosed(lastEvent'.id)) =>
      IF lastEvent'.shiftKey
        THEN /\ (lastEvent'.id \in selectedIds') = (lastEvent'.id \notin selectedIds)
             /\ selectedIds' \ {lastEvent'.id} = selectedIds \ {lastEvent'.id}
        ELSE selectedIds' = {lastEvent'.id} ]_vars

\* A Shift+click has taken a key out of a selection of two.
C23_Witness ==
  /\ lastHandler = "click"
  /\ lastEvent.shiftKey
  /\ lastEvent.id \notin selectedIds
  /\ selectedIds # {}

----------------------------------------------------------------------------
(* C25: Apply with a non-empty selection gives every selected key, on the   *)
(* current layer, the bg and color of the panel; fontSize only when the      *)
(* font-size field parses to a non-zero integer, else it stays; text only    *)
(* when exactly one key is selected, else it stays. With an empty selection  *)
(* Apply changes no key.                                                     *)
ApplyStep == pc = "idle" /\ pc' = "idle" /\ lastHandler' = "apply"

NonZeroInteger(text) == IsNum(parseInt(text)) /\ parseInt(text).v # 0

C25_ApplySetsStyle ==
  [][ ApplyStep =>
      IF selectedIds = {} THEN globalKeys' = globalKeys
      ELSE \A n \in 1..Len(globalKeys) :
             globalKeys[n].id \in selectedIds =>
               LET old == globalKeys[n].layers[currentLayer]
                   new == globalKeys'[n].layers[currentLayer]
               IN  /\ new.bg = panel.keyColor
                   /\ new.color = panel.keyTextColor
                   /\ new.fontSize =
                        IF NonZeroInteger(panel.fontSize)
                          THEN parseInt(panel.fontSize).v \div 2
                          ELSE old.fontSize
                   /\ new.text =
                        IF Cardinality(selectedIds) = 1
                          THEN panel.keyText ELSE old.text ]_vars

\* Apply has coloured two selected keys and left their labels, which are
\* not the text of the panel, and the font size of one of them.
C25_Witness ==
  /\ lastHandler = "apply"
  /\ Cardinality(selectedIds) = 2
  /\ \A n \in 1..Len(globalKeys) :
       /\ globalKeys[n].layers[currentLayer].bg = "#ff0000"
       /\ globalKeys[n].layers[currentLayer].text # panel.keyText
  /\ \E n \in 1..Len(globalKeys) :
       globalKeys[n].layers[currentLayer].fontSize = FONTSIZE
  /\ \E n \in 1..Len(globalKeys) :
       globalKeys[n].layers[currentLayer].fontSize # FONTSIZE

----------------------------------------------------------------------------
----------------------------------------------------------------------------
(* C27: Add Layer with a non-empty name that is not in layers appends the   *)
(* name to layers, makes it the current layer and gives every key an entry   *)
(* under it with text "", bg "#ffffff" and the fontSize of the key on the    *)
(* layer that was current, leaving the entries the key had; with a           *)
(* cancelled, empty or existing name, keys, layers and currentLayer stay.    *)
AddLayerStep == pc = "idle" /\ pc' = "idle" /\ lastHandler' = "addLayer"

AddLayerDone(name) ==
  /\ layers' = Append(layers, name)
  /\ currentLayer' = name
  /\ Len(globalKeys') = Len(globalKeys)
  /\ \A n \in 1..Len(globalKeys) :
       /\ name \in DOMAIN globalKeys'[n].layers
       /\ globalKeys'[n].layers[name].text = ""
       /\ globalKeys'[n].layers[name].bg = "#ffffff"
       /\ globalKeys'[n].layers[name].fontSize =
            globalKeys[n].layers[currentLayer].fontSize
       /\ \A other \in DOMAIN globalKeys[n].layers :
            globalKeys'[n].layers[other] = globalKeys[n].layers[other]

C27_AddLayer ==
  [][ AddLayerStep =>
      IF lastEvent'.newName # "" /\ lastEvent'.newName \notin Names(layers)
        THEN AddLayerDone(lastEvent'.newName)
        ELSE UNCHANGED <<globalKeys, layers, currentLayer>> ]_vars

\* Add Layer does all of this whenever every key has a style on the current
\* layer.
AddLayerWhenStyled ==
  [][ ( /\ AddLayerStep
        /\ \A n \in 1..Len(globalKeys) :
             currentLayer \in DOMAIN globalKeys[n].layers ) =>
      IF lastEvent'.newName # "" /\ lastEvent'.newName \notin Names(layers)
        THEN AddLayerDone(lastEvent'.newName)
        ELSE UNCHANGED <<globalKeys, layers, currentLayer>> ]_vars

----------------------------------------------------------------------------
(* C31: while the mouse button is held, a mousemove that leaves dragMoved    *)
(* false (no movement of more than 2 px in either axis so far) leaves panX   *)
(* and panY unchanged; pan changes only once dragMoved is true.              *)
MouseMoveStep ==
  pc = "idle" /\ pc' = "idle" /\ lastHandler' = "mousemove"

C31_SmallMoveKeepsPan ==
  [][ (MouseMoveStep /\ ~dragMoved') => (panX' = panX /\ panY' = panY) ]_vars

\* What the listener does: pan follows the pointer on every mousemove of a
\* press, whatever dragMoved says.
PanFollowsPointer ==
  [][ MouseMoveStep => ( /\ panX' - panX = lastX' - lastX
                         /\ panY' - panY = lastY' - lastY ) ]_vars

----------------------------------------------------------------------------
(* C32: loading a file that is not valid JSON, or whose payload has no keys  *)
(* array, leaves keys, layers, currentLayer and the selection as they were   *)
(* and renders nothing; a payload with an array keys field replaces the key  *)
(* list by that array and renders.                                           *)
LoadFileStep ==
  pc = "idle" /\ pc' = "idle" /\ lastHandler' = "loadFile"

HasKeysArray(f) ==
  /\ f.valid
  /\ f.doc # Null
  /\ f.doc.keys.t = "array"

C32_BadLayoutChangesNothing ==
  [][ LoadFileStep =>
      IF HasKeysArray(lastEvent'.file)
        THEN /\ globalKeys' = lastEvent'.file.doc.keys.items
             /\ rendered'
        ELSE /\ globalKeys' = globalKeys
             /\ layers' = layers
             /\ currentLayer' = currentLayer
             /\ selectedIds' = selectedIds
             /\ ~rendered' ]_vars

C32_Witness ==
  /\ pc = "idle"
  /\ lastHandler = "loadFile"
  /\ ~HasKeysArray(lastEvent.file)
  /\ selectedIds # {}
  /\ Len(layers) = 2
  /\ currentLayer = "fn"

----------------------------------------------------------------------------
(* C33: in every state reached by imports, Add Layer and layer switches,     *)
(* every key of the key list has a style entry for every name in layers.     *)
C33_EveryKeyStyledOnEveryLayer ==
  \A n \in 1..Len(globalKeys) : \A m \in 1..Len(layers) :
    layers[m] \in DOMAIN globalKeys[n].layers

\* What does hold: every key has a style on "base", the layer it is created
\* with.
EveryKeyStyledOnBase ==
  \A n \in 1..Len(globalKeys) : "base" \in DOMAIN globalKeys[n].layers

----------------------------------------------------------------------------
(* C34: in every reachable state currentLayer is a member of layers and      *)
(* layers holds no name twice, whatever was imported, added, switched to or  *)
(* loaded (a payload without layers or with an empty layers list included).  *)
C34_CurrentLayerListed ==
  /\ currentLayer \in Names(layers)
  /\ \A n, m \in 1..Len(layers) : layers[n] = layers[m] => n = m

----------------------------------------------------------------------------
(* C35: when the read of a file chosen for import completes after the file   *)
(* chosen later has been imported, or after a layout was loaded since the    *)
(* file was chosen, the completion leaves the key list as it is: the keys    *)
(* finally held are those of the last file chosen or loaded.                 *)
ImportDoneStep == pc = "done" /\ pc' = "idle"

\* The import now completing is of the file chosen first, the file chosen
\* second having been imported before.
Overtaken ==
  /\ Len(imports) = 2
  /\ imports[1].file = DxfFile(TwoKeys)
  /\ imports[2].file = DxfFile(OneKey)

C35_LastChosenWins ==
  [][ (ImportDoneStep /\ (Overtaken \/ lastHandler = "loadFile"))
        => globalKeys' = globalKeys ]_vars

\* What the handler does: the key list is that of the read that completed
\* last, whenever its file was chosen.
LastCompletedWins ==
  [][ ImportDoneStep => globalKeys' = result ]_vars

====
